---- MODULE Spec2Model ----
(***************************************************************************)
(* Model of the dispatch and configuration engine of @dqcai/logger:        *)
(* UniversalLogger (core/Logger.ts) and LoggerConfigBuilder.                *)
(*                                                                         *)
(* Configuration objects are JavaScript objects, so they live in a heap    *)
(* and are named by references.  A reference is the number of the          *)
(* allocation ("tree") that created the object; one allocation creates at  *)
(* most one LoggerConfig object, one modules map, one metadata object and  *)
(* one ModuleConfig object per module name.                                *)
(***************************************************************************)
EXTENDS Integers, Sequences, FiniteSets, TLC

VARIABLES
  cfgObj,      \* heap: reference -> LoggerConfig object
  mapObj,      \* heap: reference -> modules map (module name -> ModuleConfig reference)
  mcObj,       \* heap: <<reference, slot>> -> ModuleConfig object
  metaObj,     \* heap: reference -> metadata object
  next,        \* next free reference
  config,      \* UniversalLogger.config (a reference)
  sessionId,   \* UniversalLogger.sessionId
  transports,  \* UniversalLogger.transports (a Map, in insertion order)
  registered,  \* per name, the instance last passed to addTransport and not removed since
  held,        \* references to LoggerConfig objects the caller holds
  calls,       \* the log() calls issued so far
  delivered,   \* per transport instance, the entries passed to its log()
  diag,        \* what was written to console.error
  sweeps,      \* the flush() and cleanup() calls issued so far
  builder,     \* LoggerConfigBuilder.config (a reference, 0 when there is no builder)
  writes,      \* number of writes the caller made through references it holds
  chained,     \* number of builder methods called so far
  common,      \* CommonLoggerConfig: instance, currentConfig, customTransports
  asked,       \* what CommonLoggerConfig was last asked to do
  lazy,        \* per transport that initializes lazily: its fields and its log() calls
  api          \* the ApiTransport: its fields, its sendWithRetry calls, the flush() calls on it

vars == <<cfgObj, mapObj, mcObj, metaObj, next, config, sessionId, transports, registered, held,
          calls, delivered, diag, sweeps, builder, writes, chained, common, asked, lazy, api>>

heapVars == <<cfgObj, mapObj, mcObj, metaObj, next>>
logVars == <<calls, delivered, diag, sweeps>>
callerVars == <<held, builder, writes, chained, common, asked, lazy, api>>

----------------------------------------------------------------------------
(* Bounds *)

MaxTrees == 2
MaxCalls == 2
MaxWrites == 2
MaxChain == 2

----------------------------------------------------------------------------
(* Values *)

LogLevels == <<"trace", "debug", "info", "warn", "error">>
LogLevel == {LogLevels[i] : i \in 1..Len(LogLevels)}
\* a level string outside the LogLevel type, as an untyped caller can pass
UnknownLevel == "verbose"
LevelInputs == LogLevel \cup {UnknownLevel}

\* "constructor" is a property every plain object inherits from Object.prototype
ObjectPrototypeNames == {"constructor"}
ModuleNames == {"app", "constructor"}

TransportNames == {"console", "file", "api"}

\* transport instances the caller registers: what their log() does when called
\* ("resolves": it returns a promise that is fulfilled later, or never), and
\* what their optional flush() and cleanup() do ("absent": no such method).
\* The fourth has the name of the first.
Instances == 1..4
instName == <<"console", "file", "api", "console">>
instBehaviour == <<"void", "throws", "rejects", "resolves">>
instFlush == <<"absent", "throws", "rejects", "void">>
\* ApiTransport.cleanup throws "Method not implemented."
instCleanup == <<"absent", "void", "throws", "rejects">>

MetaKeys == {"app", "env"}
Absent == ""
MetaInputs == {[k \in MetaKeys |-> IF k = "app" THEN "1" ELSE Absent],
               [k \in MetaKeys |-> IF k = "env" THEN "2" ELSE Absent]}

\* CommonLoggerConfig before anything is called: instance = null (0),
\* currentConfig = null (0), customTransports = []
\* waiting: a call is in the wait loop of initialize()
NoCommon ==
  [instance |-> 0, currentConfig |-> 0, customTransports |-> <<>>, isInitializing |-> FALSE,
   waiting |-> FALSE]
\* nothing asked yet: no transport added through CommonLoggerConfig, no
\* updateConfiguration call, no module switched on or off
NothingAsked ==
  [added |-> [name \in TransportNames |-> 0], update |-> <<>>,
   switched |-> [m \in ModuleNames |-> "none"]]

\* a metadata object of the caller, { app: "1" }, and where it lives
metaLiteral == 0 - 1
MetaLiteralHeap == metaLiteral :> [k \in MetaKeys |-> IF k = "app" THEN "1" ELSE Absent]

\* an optional property that is not set
NoSessionId == "<undefined>"

\* what Date.now() and Math.random().toString(36).substr(2, 9) give at the
\* successive calls of generateSessionId(): no two calls get the same pair
Stamps == <<"1_a", "2_b", "3_c", "4_d", "5_e">>

\* the value of a property that is not there
Undef == <<0, "undefined">>
\* the value found through the prototype chain (the function Object)
ProtoMember == <<0, "Object.prototype">>

\* the ModuleConfig objects the caller has at hand to pass to the logger
ModuleConfigLiterals ==
  << [enabled |-> TRUE,  levels |-> LogLevels, transports |-> <<"file", "console">>],
     [enabled |-> TRUE,  levels |-> <<"warn", "error">>, transports |-> <<"api", "console">>],
     [enabled |-> FALSE, levels |-> <<>>, transports |-> <<>>],
     [enabled |-> FALSE, levels |-> LogLevels, transports |-> <<"console">>],
     [enabled |-> TRUE,  levels |-> <<"trace", "debug">>, transports |-> <<"console">>],
     [enabled |-> TRUE,  levels |-> <<"error">>, transports |-> <<"console">>],
     [enabled |-> TRUE,  levels |-> <<"debug", "info", "warn", "error">>,
      transports |-> <<"console">>] >>
\* where the k-th of them lives
literal(k) == <<0 - k, "literal">>
LiteralHeap ==
  [a \in {literal(k) : k \in 1..Len(ModuleConfigLiterals)} |-> ModuleConfigLiterals[0 - a[1]]]

----------------------------------------------------------------------------
(* Arrays *)

\* Array.prototype.indexOf: zero-based index of the first occurrence, or -1
indexOf(arr, x) ==
  IF \E i \in 1..Len(arr) : arr[i] = x
  THEN (CHOOSE i \in 1..Len(arr) : arr[i] = x /\ \A j \in 1..(i - 1) : arr[j] # x) - 1
  ELSE -1

\* Array.prototype.includes
includes(arr, x) == \E i \in 1..Len(arr) : arr[i] = x

RECURSIVE filterDefined(_)
\* Array.prototype.filter(t => t !== undefined) over instance ids, 0 = undefined
filterDefined(arr) ==
  IF arr = <<>> THEN <<>>
  ELSE IF Head(arr) = 0 THEN filterDefined(Tail(arr))
       ELSE <<Head(arr)>> \o filterDefined(Tail(arr))

----------------------------------------------------------------------------
(* Heap access *)

\* obj[name] on a modules map: own property first, then the prototype chain
propertyGet(map, name) ==
  IF mapObj[map][name] # Undef THEN mapObj[map][name]
  ELSE IF name \in ObjectPrototypeNames THEN ProtoMember
  ELSE Undef

\* JSON.stringify(config): the plain value of the object graph, own enumerable
\* properties only, undefined properties dropped
stringify(c) ==
  [enabled |-> cfgObj[c].enabled,
   defaultLevel |-> cfgObj[c].defaultLevel,
   modules |-> [m \in ModuleNames |->
                  IF mapObj[cfgObj[c].modules][m] = Undef THEN <<>>
                  ELSE <<mcObj[mapObj[cfgObj[c].modules][m]]>>],
   metadata |-> IF cfgObj[c].metadata = 0 THEN <<>>
                ELSE <<metaObj[cfgObj[c].metadata]>>,
   sessionId |-> cfgObj[c].sessionId]

\* JSON.parse(text): a graph of fresh objects, allocated at reference n
parseCfg(v, n) ==
  n :> [enabled |-> v.enabled, defaultLevel |-> v.defaultLevel, modules |-> n,
        metadata |-> IF v.metadata = <<>> THEN 0 ELSE n,
        sessionId |-> v.sessionId]
parseMap(v, n) ==
  n :> [m \in ModuleNames |-> IF v.modules[m] = <<>> THEN Undef ELSE <<n, m>>]
parseMc(v, n) ==
  [a \in {<<n, m>> : m \in {x \in ModuleNames : v.modules[x] # <<>>}} |->
     v.modules[a[2]][1]]
parseMeta(v, n) ==
  IF v.metadata = <<>> THEN <<>> ELSE n :> v.metadata[1]

----------------------------------------------------------------------------
(* UniversalLogger: the filter *)

\* isLevelEnabled without the test for an index of -1
isLevelEnabledUnchecked(level, threshold) ==
  indexOf(LogLevels, level) >= indexOf(LogLevels, threshold)

isLevelEnabled(level, threshold) ==
  LET levelIndex == indexOf(LogLevels, level)
      thresholdIndex == indexOf(LogLevels, threshold)
  IN IF levelIndex = -1 \/ thresholdIndex = -1
     THEN FALSE
     ELSE levelIndex >= thresholdIndex

\* shouldLog without the test of the global flag
shouldLogModuleOnly(c, module, level) ==
  LET moduleConfig == propertyGet(cfgObj[c].modules, module)
  IN IF moduleConfig = Undef
     THEN isLevelEnabled(level, cfgObj[c].defaultLevel)
     ELSE IF moduleConfig = ProtoMember THEN FALSE
     ELSE mcObj[moduleConfig].enabled /\ includes(mcObj[moduleConfig].levels, level)

\* shouldLog without the test of the module's enabled flag
shouldLogLevelsOnly(c, module, level) ==
  IF ~cfgObj[c].enabled THEN FALSE
  ELSE LET moduleConfig == propertyGet(cfgObj[c].modules, module)
       IN IF moduleConfig = Undef
          THEN isLevelEnabled(level, cfgObj[c].defaultLevel)
          ELSE IF moduleConfig = ProtoMember THEN FALSE
          ELSE includes(mcObj[moduleConfig].levels, level)

\* shouldLog comparing by threshold for configured modules too: the level
\* passes when it is at or above the first level of the module's list
shouldLogThreshold(c, module, level) ==
  IF ~cfgObj[c].enabled THEN FALSE
  ELSE LET moduleConfig == propertyGet(cfgObj[c].modules, module)
       IN IF moduleConfig = Undef
          THEN isLevelEnabled(level, cfgObj[c].defaultLevel)
          ELSE IF moduleConfig = ProtoMember THEN FALSE
          ELSE /\ mcObj[moduleConfig].enabled
               /\ mcObj[moduleConfig].levels # <<>>
               /\ isLevelEnabled(level, mcObj[moduleConfig].levels[1])

\* shouldLog of the logger whose this.config is the reference c
shouldLog(c, module, level) ==
  IF ~cfgObj[c].enabled THEN FALSE
  ELSE LET moduleConfig == propertyGet(cfgObj[c].modules, module)
       IN IF moduleConfig = Undef
          THEN isLevelEnabled(level, cfgObj[c].defaultLevel)
          \* an inherited member is truthy and its .enabled is undefined
          ELSE IF moduleConfig = ProtoMember THEN FALSE
          ELSE mcObj[moduleConfig].enabled /\ includes(mcObj[moduleConfig].levels, level)

\* Map.prototype.get on the registry: the instance registered under name, 0 = undefined
registryGet(reg, name) ==
  IF \E k \in 1..Len(reg) : instName[reg[k]] = name
  THEN reg[CHOOSE k \in 1..Len(reg) : instName[reg[k]] = name]
  ELSE 0

\* a resolution that gives up when one of the names is not registered
getTransportsAllOrNothing(c, reg, module) ==
  LET moduleConfig == propertyGet(cfgObj[c].modules, module)
      transportNames == IF moduleConfig \in {Undef, ProtoMember}
                        THEN <<"console">>
                        ELSE mcObj[moduleConfig].transports
      found == [k \in 1..Len(transportNames) |-> registryGet(reg, transportNames[k])]
  IN IF \E k \in 1..Len(found) : found[k] = 0 THEN <<>> ELSE found

getTransportsForModule(c, reg, module) ==
  LET moduleConfig == propertyGet(cfgObj[c].modules, module)
      transportNames == IF moduleConfig \in {Undef, ProtoMember}
                        THEN <<"console">>
                        ELSE mcObj[moduleConfig].transports
  IN filterDefined([k \in 1..Len(transportNames) |-> registryGet(reg, transportNames[k])])

----------------------------------------------------------------------------
(* UniversalLogger: the fan-out *)

\* the state of one transport's wrapper promise right after transport.log(entry)
\* was called inside try/catch: a synchronous throw is caught at once, a
\* returned promise is awaited
wrapperAfterCall(i) ==
  CASE instBehaviour[i] = "void"     -> "ok"
    [] instBehaviour[i] = "throws"   -> "caught"
    [] instBehaviour[i] = "resolves" -> "pending"
    [] instBehaviour[i] = "rejects"  -> "pending"

RECURSIVE untilThrow(_)
\* the transports a loop without try/catch reaches: up to the first that throws
untilThrow(ts) ==
  IF ts = <<>> THEN <<>>
  ELSE IF instBehaviour[Head(ts)] = "throws" THEN <<Head(ts)>>
       ELSE <<Head(ts)>> \o untilThrow(Tail(ts))

RECURSIVE untilPending(_)
\* the transports a loop that awaits each log() before the next call reaches
\* before it has to wait: up to the first whose promise is not settled yet
untilPending(ts) ==
  IF ts = <<>> THEN <<>>
  ELSE IF wrapperAfterCall(Head(ts)) = "pending" THEN <<Head(ts)>>
       ELSE <<Head(ts)>> \o untilPending(Tail(ts))

\* for (const transport of transports) { try { await transport.log(entry) } catch ... }
sendToTransportsInTurn(ts) ==
  [invoked |-> untilPending(ts),
   status |-> [k \in 1..Len(untilPending(ts)) |-> wrapperAfterCall(ts[k])]]

\* for (const transport of transports) transport.log(entry), nothing caught
sendToTransportsLoop(ts) ==
  [invoked |-> untilThrow(ts),
   status |-> [k \in 1..Len(untilThrow(ts)) |-> wrapperAfterCall(ts[k])]]

\* transports.map(async (transport) => { try { await transport.log(entry) } catch ... }):
\* every transport of the list is called, in list order
sendToTransports(ts) ==
  [invoked |-> ts,
   status |-> [k \in 1..Len(ts) |-> wrapperAfterCall(ts[k])]]

\* the promise of one wrapper once transport.log(entry) has settled: the async
\* arrow function returns normally from the try and from the catch block
wrapperResult(st) ==
  CASE st = "ok"     -> "fulfilled"
    [] st = "caught" -> "fulfilled"

\* Promise.allSettled: fulfilled once every promise has settled, whatever the results
allSettled(results) == "fulfilled"

\* Promise.race: settled as soon as one of the promises has settled
hasSettledAny(status) ==
  status = <<>> \/ \E k \in 1..Len(status) : status[k] # "pending"

\* whether the promise of Promise.allSettled has settled: every promise has
hasSettled(status) == \A k \in 1..Len(status) : status[k] # "pending"

\* Promise.all over promises that do not catch: rejected by the first failure
settleOutcomeAll(status) ==
  IF \E k \in 1..Len(status) : status[k] = "caught" THEN "rejected" ELSE "fulfilled"

\* the promise returned by sendToTransports once every wrapper has settled
settleOutcome(status) ==
  allSettled([k \in 1..Len(status) |-> wrapperResult(status[k])])

\* log() with one more await, between shouldLog and getTransportsForModule
logAwaitPointsEarly == {"filtered", "awaiting"}

\* the points of log() at which it gives up control: its only await
logAwaitPoints == {"awaiting"}

\* JavaScript runs a handler to completion: nothing else runs while a log()
\* call is between two of its await points
Quiescent == \A c \in 1..Len(calls) : calls[c].pc \in logAwaitPoints \cup {"done"}

\* await logger.log(...): the caller goes on when every earlier call has returned
Awaited == \A c \in 1..Len(calls) : calls[c].pc = "done"

----------------------------------------------------------------------------
(* UniversalLogger: log() and the level wrappers *)

RECURSIVE join(_, _)
\* Array.prototype.join(separator) over strings
join(parts, separator) ==
  IF parts = <<>> THEN ""
  ELSE IF Len(parts) = 1 THEN parts[1]
  ELSE parts[1] \o separator \o join(Tail(parts), separator)

\* formatLogMessage(...args) for string arguments: String(arg) each, joined by " "
formatLogMessage(args) == join(args, " ")

RECURSIVE deliverAllFront(_, _, _)
\* each transport sees the entry ahead of the entries it was given before
deliverAllFront(del, ts, entry) ==
  IF ts = <<>> THEN del
  ELSE deliverAllFront([del EXCEPT ![Head(ts)] = <<entry>> \o @], Tail(ts), entry)

RECURSIVE deliverAllRetry(_, _, _)
\* transport.log(entry) called once more on a transport that threw
deliverAllRetry(del, ts, entry) ==
  IF ts = <<>> THEN del
  ELSE deliverAllRetry(
         [del EXCEPT ![Head(ts)] = IF instBehaviour[Head(ts)] = "throws"
                                   THEN Append(Append(@, entry), entry)
                                   ELSE Append(@, entry)],
         Tail(ts), entry)

RECURSIVE deliverAll(_, _, _)
\* transport.log(entry) called on each transport of ts, in order
deliverAll(del, ts, entry) ==
  IF ts = <<>> THEN del
  ELSE deliverAll([del EXCEPT ![Head(ts)] = Append(@, entry)], Tail(ts), entry)

RECURSIVE reportCaught(_, _, _, _)
\* console.error("[UniversalLogger] Transport <name> failed:", error) per caught throw
reportCaught(c, ts, status, k) ==
  IF k > Len(ts) THEN <<>>
  ELSE (IF status[k] = "caught" THEN <<[call |-> c, transport |-> ts[k]]>> ELSE <<>>)
       \o reportCaught(c, ts, status, k + 1)

\* an id that is the same at every call
generateSessionIdFixed(drawn) == "session_" \o Stamps[1]

\* generateSessionId(): `session_${Date.now()}_${Math.random()...}`, drawn being
\* the number of ids generated before
generateSessionId(drawn) == "session_" \o Stamps[drawn + 1]

\* the number of ids generateSessionId() has produced when id is the latest
drawn(id) ==
  IF \E n \in 1..Len(Stamps) : id = "session_" \o Stamps[n]
  THEN CHOOSE n \in 1..Len(Stamps) : id = "session_" \o Stamps[n]
  ELSE 0

\* constructor: this.sessionId = config.sessionId || this.generateSessionId()
constructorSessionId(c) ==
  IF cfgObj[c].sessionId \notin {NoSessionId, ""}
  THEN cfgObj[c].sessionId
  ELSE generateSessionId(0)

\* getSessionId(): return this.sessionId
getSessionId == sessionId

\* renewSession(): this.sessionId = this.generateSessionId(); return this.sessionId
renewSession ==
  /\ Quiescent
  /\ drawn(sessionId) < MaxCalls
  /\ sessionId' = generateSessionId(drawn(sessionId))
  /\ UNCHANGED <<heapVars, config, transports, registered, logVars, callerVars>>

\* an entry that carries the session id the configuration object names
logEntryConfigSession(c) ==
  [call |-> c, module |-> calls[c].module, level |-> calls[c].level,
   message |-> calls[c].message, metadata |-> cfgObj[config].metadata,
   sessionId |-> cfgObj[config].sessionId]

\* const entry: LogEntry = { timestamp, level, module, message, data,
\*   metadata: this.config.metadata, sessionId: this.sessionId }; call stands for
\* the timestamp, metadata is a reference
logEntry(c) ==
  [call |-> c, module |-> calls[c].module, level |-> calls[c].level,
   message |-> calls[c].message, metadata |-> cfgObj[config].metadata,
   sessionId |-> sessionId]

\* what a log(module, level, message) call is at the end of shouldLog.  enabled0
\* and route0 record the global flag and the transport list the configuration
\* resolves to at that moment.
callRecord(module, level, message) ==
  LET passed == shouldLog(config, module, level)
  IN [module |-> module, level |-> level, message |-> message,
      pc |-> IF passed THEN "filtered" ELSE "done",
      passed |-> passed,
      enabled0 |-> cfgObj[config].enabled,
      route0 |-> IF passed THEN getTransportsForModule(config, transports, module)
                 ELSE <<>>,
      targets |-> <<>>, status |-> <<>>,
      outcome |-> IF passed THEN "pending" ELSE "fulfilled"]

\* log(module, level, message) up to the end of shouldLog
log(module, level, message) ==
  /\ Quiescent
  /\ Len(calls) < MaxCalls
  /\ calls' = Append(calls, callRecord(module, level, message))
  /\ UNCHANGED <<heapVars, config, sessionId, transports, registered, delivered, diag, sweeps, callerVars>>

\* log(module, level, "msg")
LogStart(module, level) == log(module, level, "msg")

\* trace/debug/info/warn/error(module, ...args): formatLogMessage(...args), which
\* catches what JSON.stringify throws, then await this.log(module, level, message);
\* the promise of the wrapper settles as the promise of log() does
levelMethod(module, level, args) ==
  /\ level \in LogLevel
  /\ log(module, level, formatLogMessage(args))

\* the level method called with the one argument "msg"
levelWrapper(module, level) == levelMethod(module, level, <<"msg">>)

\* createModuleLogger(module): new ModuleLogger(module, this)
createModuleLogger(module) == [module |-> module]

\* a module logger that drops what is below "warn" before it delegates
moduleLoggerMethodGated(ml, level, args) ==
  /\ level \in {"warn", "error"}
  /\ levelMethod(ml.module, level, <<formatLogMessage(args)>>)

\* ModuleLogger.trace/debug/info/warn/error(...args):
\* const message = formatLogMessage(...args); await this.logger[level](this.module, message)
moduleLoggerMethod(ml, level, args) ==
  levelMethod(ml.module, level, <<formatLogMessage(args)>>)

\* log() from the construction of the entry to its await: the transport list is
\* resolved and every wrapper is started, which calls transport.log(entry)
LogSend(c) ==
  /\ c \in 1..Len(calls)
  /\ calls[c].pc = "filtered"
  /\ LET ts == getTransportsForModule(config, transports, calls[c].module)
         r == sendToTransports(ts)
         entry == logEntry(c)
     IN /\ calls' = [calls EXCEPT ![c].pc = "awaiting",
                                  ![c].targets = r.invoked,
                                  ![c].status = r.status]
        /\ delivered' = deliverAll(delivered, r.invoked, entry)
        /\ diag' = diag \o reportCaught(c, r.invoked, r.status, 1)
  /\ UNCHANGED <<heapVars, config, sessionId, transports, registered, sweeps, callerVars>>

\* the promise returned by a transport's log() settles
TransportSettle(c, k) ==
  /\ Quiescent
  /\ c \in 1..Len(calls)
  /\ calls[c].pc = "awaiting"
  /\ k \in 1..Len(calls[c].status)
  /\ calls[c].status[k] = "pending"
  /\ LET i == calls[c].targets[k]
     IN IF instBehaviour[i] = "rejects"
        THEN /\ calls' = [calls EXCEPT ![c].status[k] = "caught"]
             /\ diag' = Append(diag, [call |-> c, transport |-> i])
        ELSE /\ calls' = [calls EXCEPT ![c].status[k] = "ok"]
             /\ diag' = diag
  /\ UNCHANGED <<heapVars, config, sessionId, transports, registered, delivered, sweeps, callerVars>>

\* every wrapper has settled: the promise returned by log() settles
LogReturn(c) ==
  /\ Quiescent
  /\ c \in 1..Len(calls)
  /\ calls[c].pc = "awaiting"
  /\ hasSettled(calls[c].status)
  /\ calls' = [calls EXCEPT ![c].pc = "done",
                            ![c].outcome = settleOutcome(calls[c].status)]
  /\ UNCHANGED <<heapVars, config, sessionId, transports, registered, delivered, diag, sweeps, callerVars>>

----------------------------------------------------------------------------
(* UniversalLogger: transport management *)

\* a registry that keeps the instance it has under a name
mapSetKeep(reg, i) ==
  IF \E k \in 1..Len(reg) : instName[reg[k]] = instName[i] THEN reg ELSE Append(reg, i)

\* Map.prototype.set: a present key keeps its place and gets the new value
mapSet(reg, i) ==
  IF \E k \in 1..Len(reg) : instName[reg[k]] = instName[i]
  THEN [k \in 1..Len(reg) |-> IF instName[reg[k]] = instName[i] THEN i ELSE reg[k]]
  ELSE Append(reg, i)

\* Map.prototype.delete
mapDelete(reg, name) == SelectSeq(reg, LAMBDA i : instName[i] # name)

\* a deletion that reports success whatever the map holds
mapDeleteResultAlways(reg, name) == TRUE

\* what Map.prototype.delete returns: whether the key was in the map
mapDeleteResult(reg, name) == \E k \in 1..Len(reg) : instName[reg[k]] = name

\* what removeTransport(name) returns: return this.transports.delete(name)
removeTransportResult(name) == mapDeleteResult(transports, name)

\* Array.from(this.transports.keys())
listTransports(reg) == [k \in 1..Len(reg) |-> instName[reg[k]]]

addTransport(i) ==
  /\ Quiescent
  /\ transports' = mapSet(transports, i)
  /\ registered' = [registered EXCEPT ![instName[i]] = i]
  /\ UNCHANGED <<heapVars, config, sessionId, logVars, callerVars>>

removeTransport(name) ==
  /\ Quiescent
  /\ transports' = mapDelete(transports, name)
  /\ registered' = [registered EXCEPT ![name] = 0]
  /\ UNCHANGED <<heapVars, config, sessionId, logVars, callerVars>>

----------------------------------------------------------------------------
(* UniversalLogger: flush() and cleanup() *)

\* what transport.flush / transport.cleanup of instance i is
sweepBehaviour(op, i) == IF op = "flush" THEN instFlush[i] ELSE instCleanup[i]

\* transports.filter((transport) => typeof transport.flush === "function")
exposing(reg, op) == SelectSeq(reg, LAMBDA i : sweepBehaviour(op, i) # "absent")

RECURSIVE untilThrowOp(_, _)
\* the transports .map((transport) => transport.flush!()) reaches: the callback
\* catches nothing, so the first throw ends the map
untilThrowOp(ts, op) ==
  IF ts = <<>> THEN <<>>
  ELSE IF sweepBehaviour(op, Head(ts)) = "throws" THEN <<Head(ts)>>
       ELSE <<Head(ts)>> \o untilThrowOp(Tail(ts), op)

\* what the call transport.flush!() leaves in the array of promises
afterOp(op, i) ==
  CASE sweepBehaviour(op, i) = "void"     -> "ok"
    [] sweepBehaviour(op, i) = "throws"   -> "threw"
    [] sweepBehaviour(op, i) = "resolves" -> "pending"
    [] sweepBehaviour(op, i) = "rejects"  -> "pending"

\* flush() and cleanup() up to their await: an exception thrown inside the async
\* function rejects the promise it returned
sweep(op) ==
  /\ Quiescent
  /\ Len(sweeps) < MaxCalls
  /\ LET invoked == untilThrowOp(exposing(transports, op), op)
         status == [k \in 1..Len(invoked) |-> afterOp(op, invoked[k])]
         threw == \E k \in 1..Len(invoked) : status[k] = "threw"
     IN sweeps' = Append(sweeps,
          [op |-> op, invoked |-> invoked, status |-> status,
           pc |-> IF threw THEN "done" ELSE "awaiting",
           outcome |-> IF threw THEN "rejected" ELSE "pending"])
  /\ UNCHANGED <<heapVars, config, sessionId, transports, registered, calls, delivered, diag, callerVars>>

flush == sweep("flush")

cleanup == sweep("cleanup")

\* a promise returned by a transport's flush() or cleanup() settles; nothing is
\* attached to it but Promise.allSettled
SweepSettle(s, k) ==
  /\ Quiescent
  /\ s \in 1..Len(sweeps)
  /\ sweeps[s].pc = "awaiting"
  /\ k \in 1..Len(sweeps[s].status)
  /\ sweeps[s].status[k] = "pending"
  /\ sweeps' = [sweeps EXCEPT ![s].status[k] =
                  IF sweepBehaviour(sweeps[s].op, sweeps[s].invoked[k]) = "rejects"
                  THEN "failed" ELSE "ok"]
  /\ UNCHANGED <<heapVars, config, sessionId, transports, registered, calls, delivered, diag, callerVars>>

\* await Promise.allSettled(flushPromises) is over: the promise of flush() settles
SweepReturn(s) ==
  /\ Quiescent
  /\ s \in 1..Len(sweeps)
  /\ sweeps[s].pc = "awaiting"
  /\ hasSettled(sweeps[s].status)
  /\ sweeps' = [sweeps EXCEPT ![s].pc = "done",
                              ![s].outcome = allSettled(sweeps[s].status)]
  /\ UNCHANGED <<heapVars, config, sessionId, transports, registered, calls, delivered, diag, callerVars>>

----------------------------------------------------------------------------
(* UniversalLogger: configuration management *)

\* an assignment that lands under another module name
setModuleConfigElsewhere(module, mc) ==
  /\ Quiescent
  /\ mapObj' = [mapObj EXCEPT
       ![cfgObj[config].modules][CHOOSE m \in ModuleNames : m # module] = mc]
  /\ UNCHANGED <<cfgObj, mcObj, metaObj, next, config, sessionId, transports, registered,
                 logVars, callerVars>>

\* this.config.modules[module] = config, config being an object of the caller
setModuleConfig(module, mc) ==
  /\ Quiescent
  /\ mapObj' = [mapObj EXCEPT ![cfgObj[config].modules][module] = mc]
  /\ UNCHANGED <<cfgObj, mcObj, metaObj, next, config, sessionId, transports, registered, logVars, callerVars>>

\* this.config.enabled = enabled
setGlobalEnabled(enabled) ==
  /\ Quiescent
  /\ cfgObj' = [cfgObj EXCEPT ![config].enabled = enabled]
  /\ UNCHANGED <<mapObj, mcObj, metaObj, next, config, sessionId, transports, registered, logVars, callerVars>>

\* this.config.defaultLevel = level
setDefaultLevel(level) ==
  /\ Quiescent
  /\ cfgObj' = [cfgObj EXCEPT ![config].defaultLevel = level]
  /\ UNCHANGED <<mapObj, mcObj, metaObj, next, config, sessionId, transports, registered, logVars, callerVars>>

\* { ...a, ...b }: a fresh object, the keys of b winning
spread(a, b) == [k \in MetaKeys |-> IF b[k] # Absent THEN b[k] ELSE a[k]]

\* Object.assign(this.config.metadata, metadata): the object in place gets the keys
setMetadataInPlace(metadata) ==
  /\ Quiescent
  /\ cfgObj[config].metadata # 0
  /\ metaObj' = [metaObj EXCEPT ![cfgObj[config].metadata] = spread(@, metadata)]
  /\ UNCHANGED <<cfgObj, mapObj, mcObj, next, config, sessionId, transports, registered,
                 logVars, callerVars>>

\* this.config.metadata = { ...this.config.metadata, ...metadata }
setMetadata(metadata) ==
  /\ Quiescent
  /\ next <= MaxTrees
  /\ LET old == IF cfgObj[config].metadata = 0
                THEN [k \in MetaKeys |-> Absent]
                ELSE metaObj[cfgObj[config].metadata]
     IN metaObj' = metaObj @@ (next :> spread(old, metadata))
  /\ cfgObj' = [cfgObj EXCEPT ![config].metadata = next]
  /\ next' = next + 1
  /\ UNCHANGED <<mapObj, mcObj, config, sessionId, transports, registered, logVars, callerVars>>

\* { ...c }: a fresh top-level object that shares every nested object with c
spreadClone(c, n) ==
  [cfg |-> n :> cfgObj[c], map |-> <<>>, mc |-> <<>>, meta |-> <<>>]

\* JSON.parse(JSON.stringify(c)): the objects of the copy, allocated at n
jsonClone(c, n) ==
  LET v == stringify(c)
  IN [cfg |-> parseCfg(v, n), map |-> parseMap(v, n),
      mc |-> parseMc(v, n), meta |-> parseMeta(v, n)]

\* return JSON.parse(JSON.stringify(this.config))
getConfig ==
  /\ Quiescent
  /\ next <= MaxTrees
  /\ LET copy == jsonClone(config, next)
     IN /\ cfgObj' = cfgObj @@ copy.cfg
        /\ mapObj' = mapObj @@ copy.map
        /\ mcObj' = mcObj @@ copy.mc
        /\ metaObj' = metaObj @@ copy.meta
  /\ held' = held \cup {[ref |-> next, via |-> "getConfig"]}
  /\ next' = next + 1
  /\ UNCHANGED <<config, sessionId, transports, registered, logVars, builder, writes, chained,
                 common, asked, lazy, api>>

----------------------------------------------------------------------------
(* The caller, writing through a reference it holds *)

\* r.enabled = !r.enabled
MutateEnabled(r) ==
  /\ cfgObj' = [cfgObj EXCEPT ![r].enabled = ~@]
  /\ UNCHANGED <<mapObj, mcObj, metaObj>>

\* r.defaultLevel = "trace"
MutateDefaultLevel(r) ==
  /\ cfgObj[r].defaultLevel # "trace"
  /\ cfgObj' = [cfgObj EXCEPT ![r].defaultLevel = "trace"]
  /\ UNCHANGED <<mapObj, mcObj, metaObj>>

\* delete r.modules[module]
MutateDeleteModule(r, module) ==
  /\ mapObj[cfgObj[r].modules][module] # Undef
  /\ mapObj' = [mapObj EXCEPT ![cfgObj[r].modules][module] = Undef]
  /\ UNCHANGED <<cfgObj, mcObj, metaObj>>

\* r.modules[module].enabled = !r.modules[module].enabled
MutateModuleEnabled(r, module) ==
  /\ mapObj[cfgObj[r].modules][module] # Undef
  /\ mcObj' = [mcObj EXCEPT ![mapObj[cfgObj[r].modules][module]].enabled = ~@]
  /\ UNCHANGED <<cfgObj, mapObj, metaObj>>

\* r.modules[module].levels = ["trace"]
MutateModuleLevels(r, module) ==
  /\ mapObj[cfgObj[r].modules][module] # Undef
  /\ mcObj[mapObj[cfgObj[r].modules][module]].levels # <<"trace">>
  /\ mcObj' = [mcObj EXCEPT ![mapObj[cfgObj[r].modules][module]].levels = <<"trace">>]
  /\ UNCHANGED <<cfgObj, mapObj, metaObj>>

\* r.modules[module].transports = ["api"]
MutateModuleTransports(r, module) ==
  /\ mapObj[cfgObj[r].modules][module] # Undef
  /\ mcObj[mapObj[cfgObj[r].modules][module]].transports # <<"api">>
  /\ mcObj' = [mcObj EXCEPT ![mapObj[cfgObj[r].modules][module]].transports = <<"api">>]
  /\ UNCHANGED <<cfgObj, mapObj, metaObj>>

\* r.metadata.app = "x"
MutateMetadata(r) ==
  /\ cfgObj[r].metadata # 0
  /\ metaObj[cfgObj[r].metadata]["app"] # "x"
  /\ metaObj' = [metaObj EXCEPT ![cfgObj[r].metadata]["app"] = "x"]
  /\ UNCHANGED <<cfgObj, mapObj, mcObj>>

\* any write through the LoggerConfig reference r
Mutate(r) ==
  /\ writes < MaxWrites
  /\ writes' = writes + 1
  /\ \/ MutateEnabled(r)
     \/ MutateDefaultLevel(r)
     \/ \E module \in ModuleNames : MutateDeleteModule(r, module)
     \/ \E module \in ModuleNames : MutateModuleEnabled(r, module)
     \/ \E module \in ModuleNames : MutateModuleLevels(r, module)
     \/ \E module \in ModuleNames : MutateModuleTransports(r, module)
     \/ MutateMetadata(r)

\* the caller writes to the object it passed to the constructor
MutateConstructorArg ==
  /\ Quiescent
  /\ \E h \in held : h.via = "constructor" /\ Mutate(h.ref)
  /\ UNCHANGED <<next, config, sessionId, transports, registered, logVars, held, builder, chained,
                 common, asked, lazy, api>>

\* the caller writes to an object returned by getConfig() or build()
MutateCopy ==
  /\ Quiescent
  /\ \E h \in held : h.via \in {"getConfig", "build"} /\ Mutate(h.ref)
  /\ UNCHANGED <<next, config, sessionId, transports, registered, logVars, held, builder, chained,
                 common, asked, lazy, api>>

----------------------------------------------------------------------------
(* Transports that initialize lazily: NodeFileTransport and DBTransport *)

LazyTransports == {"node-file", "db"}

\* DBTransportConfig.batchSize, set low so that a log() call reaches flush()
batchSize == 2

\* the fields of a transport before its constructor body runs.  initPromises
\* holds the state of every promise this.initPromise has been set to, the
\* last one being this.initPromise, and dropped, for each of them, the number
\* of initNodeFS() / initDatabase() calls whose promise nothing awaits;
\* unhandled counts the rejected promises that nothing handles.  logs holds
\* the log() calls made so far, entry i being the one of call i; stored holds
\* the entries appended to the file or upserted, buffer is DBTransport.buffer,
\* taken holds the entries in the order they were pushed to the buffer,
\* timer tells whether DBTransport.timer holds a timeout that has not fired,
\* leaked counts the timeouts still to fire that this.timer no longer holds,
\* flights holds the flush() calls under way and failures counts the batches
\* that could not be upserted; cleanup is the state of the cleanup() call
NoTransport ==
  [initialized |-> FALSE, initializing |-> FALSE, initPromises |-> <<>>, dropped |-> <<>>,
   unhandled |-> 0, logs |-> <<>>, stored |-> <<>>, buffer |-> <<>>, timer |-> FALSE,
   leaked |-> 0, flights |-> {}, failures |-> 0, cleanup |-> "none", taken |-> <<>>]

\* an initialization that starts whatever the flags say
initStartAlways(tr) ==
  [tr EXCEPT !.initializing = TRUE,
             !.initPromises = Append(@, "pending"),
             !.dropped = Append(@, 0)]

\* initNodeFS() / initDatabase() up to the first await of the work it starts
initStart(tr) ==
  IF tr.initialized \/ tr.initializing
  THEN tr
  ELSE [tr EXCEPT !.initializing = TRUE,
                  !.initPromises = Append(@, "pending"),
                  !.dropped = Append(@, 0)]

\* the promise initNodeFS() / initDatabase() returns settles as this.initPromise
\* does (0: this.initPromise is null and Promise.resolve() is returned)
initPromise(tr) == Len(tr.initPromises)

promiseState(tr, p) == IF p = 0 THEN "fulfilled" ELSE tr.initPromises[p]

\* an initialization of the transport has failed
initFailed(tr) == \E p \in 1..Len(tr.initPromises) : tr.initPromises[p] = "rejected"

\* the promise of the initNodeFS() / initDatabase() call just made is not kept
dropResult(tr) ==
  IF tr.initPromises = <<>> THEN tr ELSE [tr EXCEPT !.dropped[Len(tr.initPromises)] = @ + 1]

\* new NodeFileTransport() / new DBTransport(): the constructor ends with
\* this.initNodeFS() / this.initDatabase(), neither awaited nor given a catch
construct == dropResult(initStart(NoTransport))

\* NodeFileTransport.log past the initialization check, for call i:
\* appendFile inside a try/catch that reports to the internal logger
fileWrite(tr, i, ok) ==
  [tr EXCEPT !.stored = IF ok THEN Append(@, i) ELSE @,
             !.logs[i].state = "fulfilled",
             !.logs[i].body = TRUE]

\* who waits for a flush() call: log() call i, cleanup(), or nobody (the timer)
ByTimer == 0
ByCleanup == 0 - 1

\* DBTransport.flush up to its first await: the timer is cleared; with entries
\* in the buffer, the initialization is awaited if the transport is not
\* initialized, else the buffer is emptied into a batch whose upsert starts
dbFlush(tr, origin) ==
  LET cleared == [tr EXCEPT !.timer = FALSE] IN
  IF cleared.buffer = <<>> THEN cleared
  ELSE IF ~cleared.initialized
  THEN LET started == initStart(cleared) IN
       [started EXCEPT !.flights = @ \cup {[batch |-> <<>>, state |-> "awaiting",
                                            promise |-> initPromise(started),
                                            origin |-> origin]}]
  ELSE [cleared EXCEPT !.buffer = <<>>,
                       !.flights = @ \cup {[batch |-> cleared.buffer, state |-> "writing",
                                            promise |-> 0, origin |-> origin]}]

\* DBTransport.log past the initialization check, for call i
dbWrite(tr, i) ==
  LET pushed == [tr EXCEPT !.buffer = Append(@, i), !.taken = Append(@, i),
                           !.logs[i].body = TRUE]
  IN
  IF Len(pushed.buffer) >= batchSize
  THEN LET flushed == dbFlush(pushed, i) IN
       [flushed EXCEPT !.logs[i].state =
          IF flushed.flights # pushed.flights THEN "flushing" ELSE "fulfilled"]
  ELSE [pushed EXCEPT !.timer = TRUE, !.logs[i].state = "fulfilled"]

write(t, tr, i, ok) == IF t = "db" THEN dbWrite(tr, i) ELSE fileWrite(tr, i, ok)

lazyFrame == <<heapVars, config, sessionId, transports, registered, logVars, held, builder,
               writes, chained, common, asked, api>>

\* the work initNodeFS() / initDatabase() started ends: the imports and the
\* directory or schema set-up succeeded (ok), or one of them threw, which the
\* catch block reports and throws again; finally initializing = false
initSettle(t, ok) ==
  LET tr == lazy[t]
      p == Len(tr.initPromises)
  IN
  /\ tr.initializing
  /\ lazy' = [lazy EXCEPT ![t] =
                [tr EXCEPT !.initialized = ok,
                           !.initializing = FALSE,
                           !.initPromises[p] = IF ok THEN "fulfilled" ELSE "rejected",
                           !.unhandled = IF ok THEN @ ELSE @ + tr.dropped[p]]]
  /\ UNCHANGED lazyFrame

\* transport.log(entry) up to its first await
transportLog(t) ==
  LET tr == lazy[t]
      i == Len(tr.logs) + 1
      called == [promise |-> 0, afterFailure |-> initFailed(tr), state |-> "awaiting",
                 body |-> FALSE]
  IN
  /\ Len(tr.logs) < MaxCalls
  /\ IF ~tr.initialized
     THEN LET started == initStart(tr) IN
          lazy' = [lazy EXCEPT ![t] =
                     [started EXCEPT !.logs =
                        Append(@, [called EXCEPT !.promise = initPromise(started)])]]
     ELSE \E ok \in BOOLEAN :
          lazy' = [lazy EXCEPT ![t] =
                     write(t, [tr EXCEPT !.logs = Append(@, called)], i, ok)]
  /\ UNCHANGED lazyFrame

\* log() call i continues after "await this.initNodeFS()": the await throws
\* when the promise was rejected, outside every try block of log()
logResume(t, i) ==
  LET tr == lazy[t] IN
  /\ i \in 1..Len(tr.logs)
  /\ tr.logs[i].state = "awaiting"
  /\ promiseState(tr, tr.logs[i].promise) # "pending"
  /\ \A j \in 1..(i - 1) : tr.logs[j].state # "awaiting"
  /\ IF promiseState(tr, tr.logs[i].promise) = "rejected"
     THEN lazy' = [lazy EXCEPT ![t].logs[i].state = "rejected"]
     ELSE IF ~tr.initialized
     THEN lazy' = [lazy EXCEPT ![t].logs[i].state = "fulfilled"]
     ELSE \E ok \in BOOLEAN : lazy' = [lazy EXCEPT ![t] = write(t, tr, i, ok)]
  /\ UNCHANGED lazyFrame

\* the promise of a flush() call settles: the log() call or the cleanup()
\* call that awaits it goes on; cleanup() then ends the session and closes
\* the connections.  A rejection of a flush() the timer called has no handler
flushDone(tr, origin, rejected) ==
  IF origin = ByTimer
  THEN [tr EXCEPT !.unhandled = IF rejected THEN @ + 1 ELSE @]
  ELSE IF origin = ByCleanup
  THEN [tr EXCEPT !.cleanup = IF rejected THEN "rejected" ELSE "settled"]
  ELSE [tr EXCEPT !.logs[origin].state = IF rejected THEN "rejected" ELSE "fulfilled"]

\* a flush() call continues.  After "await this.initDatabase()" it throws or
\* takes the buffer as its batch; after the upserts (ok) the batch is stored;
\* when one of them threw, the catch block puts the batch back in front of
\* the buffer and sets this.timer to a new timeout without clearing the old
flushSettle(t, ok) ==
  LET tr == lazy[t] IN
  \E flight \in tr.flights :
    LET rest == [tr EXCEPT !.flights = @ \ {flight}] IN
    /\ flight.state = "awaiting" => promiseState(tr, flight.promise) # "pending"
    /\ ok \/ tr.failures < MaxWrites
    /\ lazy' = [lazy EXCEPT ![t] =
         IF flight.state = "awaiting"
         THEN IF promiseState(tr, flight.promise) = "rejected"
              THEN flushDone(rest, flight.origin, TRUE)
              ELSE [rest EXCEPT !.buffer = <<>>,
                                !.flights = @ \cup {[flight EXCEPT !.batch = tr.buffer,
                                                                   !.state = "writing"]}]
         ELSE IF ok
         THEN flushDone([rest EXCEPT !.stored = @ \o flight.batch], flight.origin, FALSE)
         ELSE flushDone([rest EXCEPT !.buffer = flight.batch \o @,
                                     !.leaked = IF tr.timer THEN @ + 1 ELSE @,
                                     !.timer = TRUE,
                                     !.failures = @ + 1],
                        flight.origin, FALSE)]
    /\ UNCHANGED lazyFrame

\* a timeout of DBTransport fires, the one this.timer holds or one it lost:
\* () => this.flush()
flushTimer(t) ==
  /\ \/ lazy[t].timer /\ lazy' = [lazy EXCEPT ![t] = dbFlush(lazy[t], ByTimer)]
     \/ /\ lazy[t].leaked > 0
        /\ lazy' = [lazy EXCEPT ![t] = dbFlush([lazy[t] EXCEPT !.leaked = @ - 1], ByTimer)]
  /\ UNCHANGED lazyFrame

\* DBTransport.cleanup(): await this.flush(), then the session is ended and
\* the connections are closed
cleanupCall(t) ==
  LET flushed == dbFlush(lazy[t], ByCleanup) IN
  /\ t = "db"
  /\ lazy[t].cleanup = "none"
  /\ lazy' = [lazy EXCEPT ![t] =
       [flushed EXCEPT !.cleanup =
          IF flushed.flights # lazy[t].flights THEN "flushing" ELSE "settled"]]
  /\ UNCHANGED lazyFrame

----------------------------------------------------------------------------
(* ApiTransport *)

\* config.batchSize and config.maxRetries as the caller gives them (0: left out)
ApiBatchSizes == {1, 2}
ApiMaxRetries == {0, 1, 2}

\* no ApiTransport constructed yet
NoApiTransport ==
  [constructed |-> FALSE, batchSize |-> 0, maxRetries |-> 0, axios |-> "null",
   loading |-> FALSE, buffer |-> <<>>, timer |-> FALSE, accepted |-> 0, sends |-> <<>>,
   flushes |-> <<>>]

\* config.batchSize || 10, config.maxRetries || 3
orDefault(given, default) == IF given = 0 THEN default ELSE given

apiFrame == <<heapVars, config, sessionId, transports, registered, logVars, held, builder,
              writes, chained, common, asked, lazy>>

\* new ApiTransport(config): the fields, then this.initAxios(), which waits
\* for import("axios")
newApiTransport(givenBatchSize, givenMaxRetries) ==
  /\ ~api.constructed
  /\ api' = [NoApiTransport EXCEPT !.constructed = TRUE,
                                   !.batchSize = orDefault(givenBatchSize, 10),
                                   !.maxRetries = orDefault(givenMaxRetries, 3),
                                   !.loading = TRUE]
  /\ UNCHANGED apiFrame

\* initAxios() continues: this.axios is set, or the import failed, which the
\* catch block reports
initAxios(ok) ==
  /\ api.loading
  /\ api' = [api EXCEPT !.loading = FALSE, !.axios = IF ok THEN "loaded" ELSE "null"]
  /\ UNCHANGED apiFrame

\* a retry condition that allows one attempt more
retryAgainInclusive(attempt, maxRetries) == attempt <= maxRetries

\* sendWithRetry: attempt < this.maxRetries
retryAgain(attempt, maxRetries) == attempt < maxRetries

\* flush() up to its await: the transport afterwards.  A batch taken from the
\* buffer goes to sendWithRetry(batch), whose first POST is under way
apiFlush(a, origin) ==
  LET cleared == [a EXCEPT !.timer = FALSE] IN
  IF cleared.buffer = <<>> \/ cleared.axios = "null"
  THEN cleared
  ELSE [cleared EXCEPT !.buffer = <<>>,
                       !.sends = Append(@, [batch |-> cleared.buffer, attempt |-> 1,
                                            state |-> "posting", ok |-> FALSE,
                                            origin |-> origin])]

\* ApiTransport.log(entry), the entries numbered as they are logged
apiLog ==
  LET pushed == [api EXCEPT !.accepted = @ + 1, !.buffer = Append(@, api.accepted + 1)] IN
  /\ api.constructed
  /\ api.accepted < MaxCalls
  /\ api' = IF Len(pushed.buffer) >= pushed.batchSize THEN apiFlush(pushed, "log")
            ELSE [pushed EXCEPT !.timer = TRUE]
  /\ UNCHANGED apiFrame

\* the timer set by log() fires: () => this.flush()
apiTimer ==
  /\ api.timer
  /\ api' = apiFlush(api, "timer")
  /\ UNCHANGED apiFrame

\* UniversalLogger.flush() with the ApiTransport registered: transport.flush()
\* is called and awaited through Promise.allSettled.  The call is recorded
\* with the number of entries log() had taken and the sendWithRetry call it
\* waits for (0: flush() returned at once, and so does the logger's flush())
loggerFlush ==
  LET flushed == apiFlush(api, "flush")
      started == Len(flushed.sends) > Len(api.sends)
  IN
  /\ api.constructed
  /\ Len(api.flushes) < MaxCalls
  /\ api' = [flushed EXCEPT !.flushes =
               Append(@, [accepted |-> api.accepted,
                          send |-> IF started THEN Len(flushed.sends) ELSE 0,
                          settled |-> ~started])]
  /\ UNCHANGED apiFrame

\* the flush() calls waiting for sendWithRetry call k settle with it
settleFlushes(flushes, k) ==
  [f \in 1..Len(flushes) |->
     IF flushes[f].send = k THEN [flushes[f] EXCEPT !.settled = TRUE] ELSE flushes[f]]

\* the POST of sendWithRetry call k ends: with a response, or with an error,
\* after which the call waits 1000 * attempt ms to try again or gives up with
\* a report to the internal logger
apiPostSettle(k, ok) ==
  /\ k \in 1..Len(api.sends)
  /\ api.sends[k].state = "posting"
  /\ api' = IF ok
            THEN [api EXCEPT !.sends[k].state = "done", !.sends[k].ok = TRUE,
                             !.flushes = settleFlushes(@, k)]
            ELSE IF retryAgain(api.sends[k].attempt, api.maxRetries)
            THEN [api EXCEPT !.sends[k].state = "waiting"]
            ELSE [api EXCEPT !.sends[k].state = "done", !.flushes = settleFlushes(@, k)]
  /\ UNCHANGED apiFrame

\* the wait before the next attempt ends: sendWithRetry(batch, attempt + 1)
apiRetry(k) ==
  /\ k \in 1..Len(api.sends)
  /\ api.sends[k].state = "waiting"
  /\ api' = [api EXCEPT !.sends[k].state = "posting", !.sends[k].attempt = @ + 1]
  /\ UNCHANGED apiFrame

----------------------------------------------------------------------------
(* The logger dispatching *)

EmptyMap == [m \in ModuleNames |-> Undef]

DispatchModules == {"app"}
DispatchLevels == {"warn"}
DispatchLiterals == {1, 2}
DispatchInstances == {1, 2, 3}

\* new UniversalLogger(config): this.config = config, no transport registered;
\* config is { enabled: true, defaultLevel: "info", modules: {} }
Init ==
  /\ cfgObj = 1 :> [enabled |-> TRUE, defaultLevel |-> "info", modules |-> 1, metadata |-> 0,
                 sessionId |-> NoSessionId]
  /\ mapObj = 1 :> EmptyMap
  /\ mcObj = LiteralHeap
  /\ metaObj = <<>>
  /\ next = 2
  /\ config = 1
  /\ sessionId = constructorSessionId(config)
  /\ transports = <<>>
  /\ registered = [name \in TransportNames |-> 0]
  /\ held = {[ref |-> 1, via |-> "constructor"]}
  /\ calls = <<>>
  /\ delivered = [i \in Instances |-> <<>>]
  /\ diag = <<>>
  /\ sweeps = <<>>
  /\ builder = 0
  /\ writes = 0
  /\ chained = 0
  /\ common = NoCommon
  /\ asked = NothingAsked
  /\ lazy = [t \in LazyTransports |-> construct]
  /\ api = NoApiTransport

LogSteps ==
  \/ \E c \in 1..MaxCalls : LogSend(c)
  \/ \E c \in 1..MaxCalls, k \in 1..Cardinality(Instances) : TransportSettle(c, k)
  \/ \E c \in 1..MaxCalls : LogReturn(c)

Next ==
  \/ \E module \in DispatchModules, level \in DispatchLevels : LogStart(module, level)
  \/ \E module \in DispatchModules, level \in DispatchLevels : levelWrapper(module, level)
  \/ LogSteps
  \/ \E i \in DispatchInstances : addTransport(i)
  \/ \E name \in TransportNames : removeTransport(name)
  \/ \E module \in DispatchModules, k \in DispatchLiterals : setModuleConfig(module, literal(k))
  \/ \E enabled \in BOOLEAN : setGlobalEnabled(enabled)

Spec == Init /\ [][Next]_vars

----------------------------------------------------------------------------
(* The registry: transports registered, replaced and removed between log()     *)
(* calls to a module that has no configuration                                 *)

RegistryInstances == {1, 2, 4}

NextRegistry ==
  \/ \E i \in RegistryInstances : addTransport(i)
  \/ removeTransport("console")
  \/ LogStart("app", "warn")
  \/ LogSteps

SpecRegistry == Init /\ [][NextRegistry]_vars

----------------------------------------------------------------------------
(* flush() and cleanup() over the registered transports *)

NextSweep ==
  \/ \E i \in Instances : addTransport(i)
  \/ \E name \in TransportNames : removeTransport(name)
  \/ flush
  \/ cleanup
  \/ \E s \in 1..MaxCalls, k \in 1..Cardinality(Instances) : SweepSettle(s, k)
  \/ \E s \in 1..MaxCalls : SweepReturn(s)

SpecSweep == Init /\ [][NextSweep]_vars

----------------------------------------------------------------------------
(* A transport whose log() returns a promise that is fulfilled late or never:  *)
(* it is registered as "console", replaced, and calls go to ["api", "console"] *)

SlowInstances == {1, 3, 4}

NextSlow ==
  \/ \E i \in SlowInstances : addTransport(i)
  \/ setModuleConfig("app", literal(2))
  \/ LogStart("app", "warn")
  \/ LogSteps

SpecSlow == Init /\ [][NextSlow]_vars

----------------------------------------------------------------------------
(* Runtime configuration: a module is disabled and enabled again between calls *)

RuntimeLiterals == {2, 3, 6}
RuntimeInstances == {1, 3}

NextRuntime ==
  \/ \E i \in RuntimeInstances : addTransport(i)
  \/ \E k \in RuntimeLiterals : setModuleConfig("app", literal(k))
  \/ \E level \in {"warn", "error"} : levelWrapper("app", level)
  \/ LogSteps

SpecRuntime == Init /\ [][NextRuntime]_vars

----------------------------------------------------------------------------
(* Sessions and metadata: the session is renewed and the metadata and the      *)
(* configuration are changed between calls and while a call is in flight       *)

SessionInputs == {NoSessionId, "s1"}
SessionInstances == {1, 4}

\* new UniversalLogger({ enabled: true, defaultLevel: "info", modules: {},
\* metadata: { app: "1" }, sessionId }), sessionId given or not
InitSession ==
  /\ \E id \in SessionInputs :
       cfgObj = 1 :> [enabled |-> TRUE, defaultLevel |-> "info", modules |-> 1,
                      metadata |-> metaLiteral, sessionId |-> id]
  /\ mapObj = 1 :> EmptyMap
  /\ mcObj = LiteralHeap
  /\ metaObj = MetaLiteralHeap
  /\ next = 2
  /\ config = 1
  /\ sessionId = constructorSessionId(config)
  /\ transports = <<>>
  /\ registered = [name \in TransportNames |-> 0]
  /\ held = {[ref |-> 1, via |-> "constructor"]}
  /\ calls = <<>>
  /\ delivered = [i \in Instances |-> <<>>]
  /\ diag = <<>>
  /\ sweeps = <<>>
  /\ builder = 0
  /\ writes = 0
  /\ chained = 0
  /\ common = NoCommon
  /\ asked = NothingAsked
  /\ lazy = [t \in LazyTransports |-> construct]
  /\ api = NoApiTransport

NextSession ==
  \/ \E i \in SessionInstances : addTransport(i)
  \/ Awaited /\ LogStart("app", "warn")
  \/ LogSteps
  \/ renewSession
  \/ \E metadata \in MetaInputs : setMetadata(metadata)
  \/ setModuleConfig("app", literal(3))

SpecSession == InitSession /\ [][NextSession]_vars

----------------------------------------------------------------------------
(* A caller that awaits each log() call before it issues the next *)

NextSequential ==
  \/ \E level \in {"info", "error"} : Awaited /\ LogStart("app", level)
  \/ LogSteps
  \/ \E i \in DispatchInstances : addTransport(i)
  \/ \E k \in DispatchLiterals : setModuleConfig("app", literal(k))

SpecSequential == Init /\ [][NextSequential]_vars

----------------------------------------------------------------------------
(* The filter over all configurations: one log() call on a logger constructed  *)
(* with any configuration, the three transports registered                     *)

Registered == <<1, 2, 3>>

InitFilter ==
  /\ \E enabled \in BOOLEAN, level \in LevelInputs :
       cfgObj = 1 :> [enabled |-> enabled, defaultLevel |-> level,
                      modules |-> 1, metadata |-> 0, sessionId |-> NoSessionId]
  /\ \E map \in [ModuleNames -> {Undef} \cup {literal(k) : k \in 1..Len(ModuleConfigLiterals)}] :
       mapObj = 1 :> map
  /\ mcObj = LiteralHeap
  /\ metaObj = <<>>
  /\ next = 2
  /\ config = 1
  /\ sessionId = constructorSessionId(config)
  /\ transports = Registered
  /\ registered = [name \in TransportNames |-> registryGet(Registered, name)]
  /\ held = {[ref |-> 1, via |-> "constructor"]}
  /\ calls = <<>>
  /\ delivered = [i \in Instances |-> <<>>]
  /\ diag = <<>>
  /\ sweeps = <<>>
  /\ builder = 0
  /\ writes = 0
  /\ chained = 0
  /\ common = NoCommon
  /\ asked = NothingAsked
  /\ lazy = [t \in LazyTransports |-> construct]
  /\ api = NoApiTransport

NextFilter ==
  \/ \E module \in ModuleNames, level \in LevelInputs :
       calls = <<>> /\ LogStart(module, level)
  \/ \E module \in ModuleNames, level \in LevelInputs :
       calls = <<>> /\ levelWrapper(module, level)
  \/ LogSteps

SpecFilter == InitFilter /\ [][NextFilter]_vars

----------------------------------------------------------------------------
(* Routing over all registries: one log() or level method call on a logger     *)
(* constructed with any configuration of one module, after any of a set of     *)
(* addTransport sequences                                                      *)

\* the registry after addTransport of these instances, in this order
RouteRegistries ==
  {<<>>, <<1>>, <<2>>, <<3>>, <<4>>, <<1, 2>>, <<2, 1>>, <<2, 3>>, <<3, 4>>, <<1, 2, 3>>}
\* the argument lists the level methods are called with
RouteArgs == {<<"hello">>, <<"boom", "at", "x">>}

InitRoute ==
  /\ \E enabled \in BOOLEAN, level \in LogLevel :
       cfgObj = 1 :> [enabled |-> enabled, defaultLevel |-> level,
                      modules |-> 1, metadata |-> 0, sessionId |-> NoSessionId]
  /\ \E mc \in {Undef} \cup {literal(k) : k \in 1..Len(ModuleConfigLiterals)} :
       mapObj = 1 :> [EmptyMap EXCEPT !["app"] = mc]
  /\ mcObj = LiteralHeap
  /\ metaObj = <<>>
  /\ next = 2
  /\ config = 1
  /\ sessionId = constructorSessionId(config)
  /\ transports \in RouteRegistries
  /\ registered = [name \in TransportNames |-> registryGet(transports, name)]
  /\ held = {[ref |-> 1, via |-> "constructor"]}
  /\ calls = <<>>
  /\ delivered = [i \in Instances |-> <<>>]
  /\ diag = <<>>
  /\ sweeps = <<>>
  /\ builder = 0
  /\ writes = 0
  /\ chained = 0
  /\ common = NoCommon
  /\ asked = NothingAsked
  /\ lazy = [t \in LazyTransports |-> construct]
  /\ api = NoApiTransport

NextRoute ==
  \/ \E module \in ModuleNames, level \in LevelInputs :
       calls = <<>> /\ log(module, level, "hello")
  \/ \E module \in ModuleNames, level \in LevelInputs, args \in RouteArgs :
       calls = <<>> /\ levelMethod(module, level, args)
  \/ LogSteps

SpecRoute == InitRoute /\ [][NextRoute]_vars

----------------------------------------------------------------------------
(* Module loggers: calls through a ModuleLogger and calls to the logger itself *)

ModuleLevels == {"info", "warn"}

NextModule ==
  \/ \E module \in DispatchModules, level \in ModuleLevels, args \in RouteArgs :
       Awaited /\ moduleLoggerMethod(createModuleLogger(module), level, args)
  \/ \E module \in DispatchModules, level \in ModuleLevels, args \in RouteArgs :
       Awaited /\ levelMethod(module, level, args)
  \/ LogSteps
  \/ \E i \in RuntimeInstances : addTransport(i)
  \/ \E k \in RuntimeLiterals : setModuleConfig("app", literal(k))

SpecModule == Init /\ [][NextModule]_vars

----------------------------------------------------------------------------
(* The configuration objects shared between the logger and its caller *)

AliasModules == {"app"}
AliasLiterals == {1}

\* the logger after addTransport of the three transports, constructed with
\* { enabled: true, defaultLevel: "info", modules: {}, metadata: { app: "1" } }
InitAlias ==
  /\ cfgObj = 1 :> [enabled |-> TRUE, defaultLevel |-> "info", modules |-> 1, metadata |-> metaLiteral,
                 sessionId |-> NoSessionId]
  /\ mapObj = 1 :> EmptyMap
  /\ mcObj = LiteralHeap
  /\ metaObj = MetaLiteralHeap
  /\ next = 2
  /\ config = 1
  /\ sessionId = constructorSessionId(config)
  /\ transports = Registered
  /\ registered = [name \in TransportNames |-> registryGet(Registered, name)]
  /\ held = {[ref |-> 1, via |-> "constructor"]}
  /\ calls = <<>>
  /\ delivered = [i \in Instances |-> <<>>]
  /\ diag = <<>>
  /\ sweeps = <<>>
  /\ builder = 0
  /\ writes = 0
  /\ chained = 0
  /\ common = NoCommon
  /\ asked = NothingAsked
  /\ lazy = [t \in LazyTransports |-> construct]
  /\ api = NoApiTransport

ConfigMutation ==
  \/ \E module \in AliasModules, k \in AliasLiterals : setModuleConfig(module, literal(k))
  \/ \E enabled \in BOOLEAN : setGlobalEnabled(enabled)
  \/ setDefaultLevel("error")
  \/ \E metadata \in MetaInputs : setMetadata(metadata)

NextAlias ==
  \/ ConfigMutation
  \/ getConfig
  \/ MutateConstructorArg
  \/ MutateCopy

SpecAlias == InitAlias /\ [][NextAlias]_vars

----------------------------------------------------------------------------
(* LoggerConfigBuilder *)

BuilderModules == {"app"}
DefaultLevels == <<"info", "warn", "error">>
DefaultTransports == <<"console">>
\* the argument lists addModule is called with: its defaults, and a disabled module
AddModuleInputs ==
  { [enabled |-> TRUE, levels |-> DefaultLevels, transports |-> DefaultTransports],
    [enabled |-> FALSE, levels |-> <<>>, transports |-> <<>>] }

\* the object a builder method creates for the module name: it takes the place of
\* the one the builder held for that name, which nothing else refers to
builderSlot(name) == <<builder, name>>

\* the heap after this.config.modules[name] = { enabled, levels, transports }
putModule(heap, name, mc) ==
  [map |-> [heap.map EXCEPT ![cfgObj[builder].modules][name] = builderSlot(name)],
   mc |-> IF builderSlot(name) \in DOMAIN heap.mc
          THEN [heap.mc EXCEPT ![builderSlot(name)] = mc]
          ELSE heap.mc @@ (builderSlot(name) :> mc)]

builderSetEnabled(enabled) ==
  /\ cfgObj' = [cfgObj EXCEPT ![builder].enabled = enabled]
  /\ UNCHANGED <<mapObj, mcObj, metaObj, next, config, sessionId, transports, registered, logVars>>

builderSetDefaultLevel(level) ==
  /\ cfgObj' = [cfgObj EXCEPT ![builder].defaultLevel = level]
  /\ UNCHANGED <<mapObj, mcObj, metaObj, next, config, sessionId, transports, registered, logVars>>

builderSetSessionId(id) ==
  /\ cfgObj' = [cfgObj EXCEPT ![builder].sessionId = id]
  /\ UNCHANGED <<mapObj, mcObj, metaObj, next, config, sessionId, transports, registered, logVars>>

\* this.config.metadata = metadata: the object of the caller, not a copy
builderSetMetadata(metadata) ==
  /\ cfgObj' = [cfgObj EXCEPT ![builder].metadata = metadata]
  /\ UNCHANGED <<mapObj, mcObj, metaObj, next, config, sessionId, transports, registered, logVars>>

addModule(name, enabled, levels, names) ==
  /\ LET h == putModule([map |-> mapObj, mc |-> mcObj], name,
                        [enabled |-> enabled, levels |-> levels, transports |-> names])
     IN mapObj' = h.map /\ mcObj' = h.mc
  /\ UNCHANGED <<cfgObj, metaObj, next, config, sessionId, transports, registered, logVars>>

RECURSIVE addEach(_, _)
\* modules.forEach(module => this.addModule(module.name, module.enabled ?? true, ...))
addEach(heap, modules) ==
  IF modules = <<>> THEN heap
  ELSE addEach(putModule(heap, Head(modules),
                         [enabled |-> TRUE, levels |-> DefaultLevels,
                          transports |-> DefaultTransports]),
               Tail(modules))

\* addModules of a list of { name } objects
addModules(modules) ==
  /\ LET h == addEach([map |-> mapObj, mc |-> mcObj], modules)
     IN mapObj' = h.map /\ mcObj' = h.mc
  /\ UNCHANGED <<cfgObj, metaObj, next, config, sessionId, transports, registered, logVars>>

setModuleTransports(moduleName, names) ==
  /\ IF mapObj[cfgObj[builder].modules][moduleName] = Undef
     THEN LET h == putModule([map |-> mapObj, mc |-> mcObj], moduleName,
                             [enabled |-> TRUE, levels |-> DefaultLevels, transports |-> names])
          IN mapObj' = h.map /\ mcObj' = h.mc
     ELSE /\ mcObj' = [mcObj EXCEPT ![mapObj[cfgObj[builder].modules][moduleName]].transports = names]
          /\ mapObj' = mapObj
  /\ UNCHANGED <<cfgObj, metaObj, next, config, sessionId, transports, registered, logVars>>

enableAllLevelsForModule(moduleName) ==
  /\ IF mapObj[cfgObj[builder].modules][moduleName] = Undef
     THEN LET h == putModule([map |-> mapObj, mc |-> mcObj], moduleName,
                             [enabled |-> TRUE, levels |-> LogLevels,
                              transports |-> DefaultTransports])
          IN mapObj' = h.map /\ mcObj' = h.mc
     ELSE /\ mcObj' = [mcObj EXCEPT ![mapObj[cfgObj[builder].modules][moduleName]].levels = LogLevels]
          /\ mapObj' = mapObj
  /\ UNCHANGED <<cfgObj, metaObj, next, config, sessionId, transports, registered, logVars>>

\* useDevelopmentPreset / useProductionPreset / useTestingPreset
usePreset(level) ==
  /\ cfgObj' = [cfgObj EXCEPT ![builder].enabled = TRUE, ![builder].defaultLevel = level]
  /\ UNCHANGED <<mapObj, mcObj, metaObj, next, config, sessionId, transports, registered, logVars>>

useDevelopmentPreset == usePreset("debug")
useProductionPreset == usePreset("warn")
useTestingPreset == usePreset("trace")

\* return JSON.parse(JSON.stringify(this.config))
build ==
  /\ next <= MaxTrees
  /\ LET copy == jsonClone(builder, next)
     IN /\ cfgObj' = cfgObj @@ copy.cfg
        /\ mapObj' = mapObj @@ copy.map
        /\ mcObj' = mcObj @@ copy.mc
        /\ metaObj' = metaObj @@ copy.meta
  /\ held' = held \cup {[ref |-> next, via |-> "build"]}
  /\ next' = next + 1
  /\ UNCHANGED <<config, sessionId, transports, registered, logVars, builder, writes, chained,
                 common, asked, lazy, api>>

\* new LoggerConfigBuilder(): { enabled: true, defaultLevel: "info", modules: {} }
InitBuilder ==
  /\ cfgObj = 1 :> [enabled |-> TRUE, defaultLevel |-> "info", modules |-> 1, metadata |-> 0,
                    sessionId |-> NoSessionId]
  /\ mapObj = 1 :> EmptyMap
  /\ mcObj = <<>>
  /\ metaObj = MetaLiteralHeap
  /\ next = 2
  /\ config = 0
  /\ sessionId = NoSessionId
  /\ transports = <<>>
  /\ registered = [name \in TransportNames |-> 0]
  /\ held = {}
  /\ calls = <<>>
  /\ delivered = [i \in Instances |-> <<>>]
  /\ diag = <<>>
  /\ sweeps = <<>>
  /\ builder = 1
  /\ writes = 0
  /\ chained = 0
  /\ common = NoCommon
  /\ asked = NothingAsked
  /\ lazy = [t \in LazyTransports |-> construct]
  /\ api = NoApiTransport

\* one more call in the chain builder.a().b()...
Chain ==
  /\ chained < MaxChain
  /\ chained' = chained + 1
  /\ UNCHANGED <<held, builder, writes, common, asked, lazy, api>>

BuilderMethod ==
  \/ builderSetEnabled(FALSE)
  \/ builderSetDefaultLevel("error")
  \/ builderSetSessionId("s1")
  \/ builderSetMetadata(metaLiteral)
  \/ \E name \in BuilderModules, a \in AddModuleInputs :
       addModule(name, a.enabled, a.levels, a.transports)
  \/ addModules(<<"app">>)
  \/ \E name \in BuilderModules : setModuleTransports(name, <<"file">>)
  \/ \E name \in BuilderModules : enableAllLevelsForModule(name)
  \/ useDevelopmentPreset
  \/ useProductionPreset
  \/ useTestingPreset

NextBuilder ==
  \/ BuilderMethod /\ Chain
  \/ build
  \/ MutateCopy

SpecBuilder == InitBuilder /\ [][NextBuilder]_vars

----------------------------------------------------------------------------
(* CommonLoggerConfig (config/logger-config.ts): the process-wide registry.    *)
(* config, sessionId, transports and registered are the fields of the live     *)
(* UniversalLogger, CommonLoggerConfig.instance, when there is one.            *)

\* new ConsoleTransport()
ConsoleTransport == 1

\* the configuration objects at hand: the one createDefaultConfig() returns
\* and the ones the caller passes to updateConfiguration
createDefaultConfig == 1
CommonConfigs == {2, 3, 4, 5}
CommonInstances == {2, 3}
CommonLists == {<<3>>}

\* a UniversalLogger object other than the one in place
newInstance(i) == IF i = 1 THEN 2 ELSE 1

RECURSIVE addAll(_, _)
\* transports.forEach(transport => logger.addTransport(transport))
addAll(reg, ts) == IF ts = <<>> THEN reg ELSE addAll(mapSet(reg, Head(ts)), Tail(ts))

\* the last instance of ts that has the name, 0 if none has
lastNamed(ts, name) ==
  LET named == SelectSeq(ts, LAMBDA i : instName[i] = name)
  IN IF named = <<>> THEN 0 ELSE named[Len(named)]

\* createLogger(c, ts): new UniversalLogger(c), addTransport(new ConsoleTransport()),
\* then addTransport of each of ts
createLogger(c, ts) ==
  /\ config' = c
  /\ sessionId' = constructorSessionId(c)
  /\ transports' = addAll(<<>>, <<ConsoleTransport>> \o ts)
  /\ registered' = [name \in TransportNames |-> lastNamed(<<ConsoleTransport>> \o ts, name)]

\* CommonLoggerConfig.setTransports(ts)
CommonSetTransports(ts) ==
  /\ Quiescent
  /\ common' = [common EXCEPT !.customTransports = ts]
  /\ IF common.instance # 0
     THEN /\ transports' = addAll(transports, ts)
          /\ registered' = [name \in TransportNames |->
                IF lastNamed(ts, name) # 0 THEN lastNamed(ts, name) ELSE registered[name]]
     ELSE UNCHANGED <<transports, registered>>
  /\ asked' = [asked EXCEPT !.added = [name \in TransportNames |->
                IF lastNamed(ts, name) # 0 THEN lastNamed(ts, name) ELSE asked.added[name]]]
  /\ UNCHANGED <<heapVars, config, sessionId, logVars, held, builder, writes, chained, lazy, api>>

\* CommonLoggerConfig.addTransport(i)
CommonAddTransport(i) ==
  /\ Quiescent
  /\ Len(common.customTransports) < MaxChain
  /\ common' = [common EXCEPT !.customTransports = Append(@, i)]
  /\ IF common.instance # 0
     THEN /\ transports' = mapSet(transports, i)
          /\ registered' = [registered EXCEPT ![instName[i]] = i]
     ELSE UNCHANGED <<transports, registered>>
  /\ asked' = [asked EXCEPT !.added[instName[i]] = i]
  /\ UNCHANGED <<heapVars, config, sessionId, logVars, held, builder, writes, chained, lazy, api>>

\* CommonLoggerConfig.removeTransport(name)
CommonRemoveTransport(name) ==
  /\ Quiescent
  /\ common' = [common EXCEPT
       !.customTransports = SelectSeq(@, LAMBDA i : instName[i] # name)]
  /\ IF common.instance # 0
     THEN /\ transports' = mapDelete(transports, name)
          /\ registered' = [registered EXCEPT ![name] = 0]
     ELSE UNCHANGED <<transports, registered>>
  /\ asked' = [asked EXCEPT !.added[name] = 0]
  /\ UNCHANGED <<heapVars, config, sessionId, logVars, held, builder, writes, chained, lazy, api>>

\* CommonLoggerConfig.listTransports()
CommonListTransports ==
  IF common.instance # 0 THEN listTransports(transports)
  ELSE [k \in 1..Len(common.customTransports) |-> instName[common.customTransports[k]]]

\* initialize() as getInstance() calls it when instance is null: the default
\* configuration becomes currentConfig and a logger is created with it
initialize ==
  /\ common' = [common EXCEPT !.currentConfig = createDefaultConfig,
                              !.instance = newInstance(@)]
  /\ createLogger(createDefaultConfig, common.customTransports)

\* getInstance(): the instance, made by initialize() if there is none
getInstance ==
  IF common.instance = 0 THEN initialize
  ELSE UNCHANGED <<common, config, sessionId, transports, registered>>

\* a value in a list of transports that is not a transport object (null,
\* undefined): addTransport throws a TypeError when it reads its name
NotATransport == 0 - 1

\* the transports argument of initialize() left out
Omitted == <<0>>

createLoggerThrows(ts) == \E k \in 1..Len(ts) : ts[k] = NotATransport

\* initialize(customConfig, ts), the registry being cm when it is called
\* (customConfig 0: left out).  With isInitializing set the call enters
\* "while (isInitializing) {}", which nothing can end.  When createLogger
\* throws, isInitializing = false is not reached.  createDefaultConfig()
\* builds an object equal to configuration 1
initializeFrom(cm, customConfig, ts) ==
  LET c == IF customConfig # 0 THEN customConfig ELSE createDefaultConfig
      allTransports == cm.customTransports \o (IF ts = Omitted THEN <<>> ELSE ts)
  IN
  IF cm.isInitializing
  THEN /\ common' = [cm EXCEPT !.waiting = TRUE]
       /\ UNCHANGED <<config, sessionId, transports, registered>>
  ELSE IF cm.instance # 0 /\ customConfig = 0 /\ ts = Omitted
  THEN /\ common' = cm
       /\ UNCHANGED <<config, sessionId, transports, registered>>
  ELSE IF createLoggerThrows(allTransports)
  THEN /\ common' = [cm EXCEPT !.isInitializing = TRUE, !.currentConfig = c]
       /\ UNCHANGED <<config, sessionId, transports, registered>>
  ELSE /\ common' = [cm EXCEPT !.currentConfig = c, !.instance = newInstance(@)]
       /\ createLogger(c, allTransports)

\* CommonLoggerConfig.initialize(customConfig, ts)
initializeCall(customConfig, ts) ==
  /\ Quiescent
  /\ initializeFrom(common, customConfig, ts)
  /\ UNCHANGED <<heapVars, logVars, held, builder, writes, chained, asked, lazy, api>>

\* CommonLoggerConfig.getInstance()
getInstanceCall ==
  /\ Quiescent
  /\ IF common.instance = 0 THEN initializeFrom(common, 0, Omitted)
     ELSE UNCHANGED <<common, config, sessionId, transports, registered>>
  /\ UNCHANGED <<heapVars, logVars, held, builder, writes, chained, asked, lazy, api>>

\* CommonLoggerConfig.reset(): customTransports = [], then initialize()
reset ==
  /\ Quiescent
  /\ initializeFrom([common EXCEPT !.customTransports = <<>>], 0, Omitted)
  /\ UNCHANGED <<heapVars, logVars, held, builder, writes, chained, asked, lazy, api>>

\* a comparison that looks at enabled and defaultLevel only
sameConfigurationFlags(current, newConfig) ==
  /\ current # 0
  /\ cfgObj[current].enabled = cfgObj[newConfig].enabled
  /\ cfgObj[current].defaultLevel = cfgObj[newConfig].defaultLevel

\* the test of updateConfiguration: current && current.enabled === newConfig.enabled
\* && current.defaultLevel === newConfig.defaultLevel
\* && JSON.stringify(current.modules) === JSON.stringify(newConfig.modules)
sameConfiguration(current, newConfig) ==
  /\ current # 0
  /\ cfgObj[current].enabled = cfgObj[newConfig].enabled
  /\ cfgObj[current].defaultLevel = cfgObj[newConfig].defaultLevel
  /\ stringify(current).modules = stringify(newConfig).modules

\* two configurations that are equal by value
equalByValue(a, b) == a # 0 /\ b # 0 /\ stringify(a) = stringify(b)

\* updateConfiguration(newConfig)
updateConfiguration(newConfig) ==
  /\ Quiescent
  /\ asked' = [asked EXCEPT
       !.update = <<[arg |-> newConfig,
                     equal |-> equalByValue(common.currentConfig, newConfig),
                     before |-> common.instance]>>,
       !.switched = [m \in ModuleNames |-> "none"]]
  /\ IF sameConfiguration(common.currentConfig, newConfig)
     THEN UNCHANGED <<common, config, sessionId, transports, registered>>
     ELSE /\ common' = [common EXCEPT !.currentConfig = newConfig,
                                      !.instance = newInstance(@)]
          /\ createLogger(newConfig, common.customTransports)
  /\ UNCHANGED <<heapVars, logVars, held, builder, writes, chained, lazy, api>>

\* currentConfig.modules[moduleName] = mc, then updateConfiguration(currentConfig),
\* which returns at its test as the object is compared with itself; nothing
\* is done when currentConfig is null
switchModule(moduleName, mc, kind) ==
  /\ Quiescent
  /\ IF common.currentConfig # 0
     THEN mapObj' = [mapObj EXCEPT ![cfgObj[common.currentConfig].modules][moduleName] = mc]
     ELSE UNCHANGED mapObj
  /\ asked' = [asked EXCEPT !.switched[moduleName] = kind]
  /\ UNCHANGED <<cfgObj, mcObj, metaObj, next, config, sessionId, transports, registered,
                 logVars, held, builder, writes, chained, common, lazy, api>>

\* enableModule(moduleName): { enabled: true, levels: ["debug", "info", "warn",
\* "error"], transports: ["console"] }
enableModule(moduleName) == switchModule(moduleName, literal(7), "enabled")

\* disableModule(moduleName): { enabled: false, levels: [], transports: [] }
disableModule(moduleName) == switchModule(moduleName, literal(3), "disabled")

\* createModuleLogger(moduleName): the LoggerProxy of the module, made once
createProxy(moduleName) == [moduleName |-> moduleName]

\* LoggerProxy.trace/debug/info/warn/error(message, ...args):
\* CommonLoggerConfig.getInstance()[level](this.moduleName, message, ...args)
proxyMethod(px, level, args) ==
  /\ Quiescent
  /\ ~common.isInitializing
  /\ Len(calls) < MaxCalls
  /\ level \in LogLevel
  /\ getInstance
  /\ UNCHANGED <<heapVars, delivered, diag, sweeps, held, builder, writes, chained, asked, lazy, api>>
  /\ calls' = Append(calls, callRecord(px.moduleName, level, formatLogMessage(args))')

\* the registry before anything is called, the configuration objects in place:
\* 1 { enabled: true, defaultLevel: "warn", modules: {} } (the default),
\* 2 the same with defaultLevel "trace", 3 equal to 1, 4 as 1 with metadata
\* { app: "1" }, 5 { enabled: true, defaultLevel: "warn", modules: { app:
\* { enabled: true, levels: ["warn", "error"], transports: ["api", "console"] } } }
InitCommon ==
  /\ cfgObj = [c \in 1..5 |->
       [enabled |-> TRUE,
        defaultLevel |-> IF c = 2 THEN "trace" ELSE "warn",
        modules |-> c,
        metadata |-> IF c = 4 THEN metaLiteral ELSE 0,
        sessionId |-> NoSessionId]]
  /\ mapObj = [c \in 1..5 |-> IF c = 5 THEN [EmptyMap EXCEPT !["app"] = literal(2)]
                               ELSE EmptyMap]
  /\ mcObj = LiteralHeap
  /\ metaObj = MetaLiteralHeap
  /\ next = 6
  /\ config = 0
  /\ sessionId = NoSessionId
  /\ transports = <<>>
  /\ registered = [name \in TransportNames |-> 0]
  /\ held = {[ref |-> c, via |-> "build"] : c \in CommonConfigs}
  /\ calls = <<>>
  /\ delivered = [i \in Instances |-> <<>>]
  /\ diag = <<>>
  /\ sweeps = <<>>
  /\ builder = 0
  /\ writes = 0
  /\ chained = 0
  /\ common = NoCommon
  /\ asked = NothingAsked
  /\ lazy = [t \in LazyTransports |-> construct]
  /\ api = NoApiTransport

\* transports added, set and removed through the registry between
\* updateConfiguration calls and error calls through the handle of "app"
NextCommonTransports ==
  \/ \E i \in CommonInstances : CommonAddTransport(i)
  \/ \E ts \in CommonLists : CommonSetTransports(ts)
  \/ CommonRemoveTransport("file")
  \/ \E c \in {2, 5} : updateConfiguration(c)
  \/ Awaited /\ proxyMethod(createProxy("app"), "error", <<"msg">>)
  \/ LogSteps

SpecCommonTransports == InitCommon /\ [][NextCommonTransports]_vars

\* configurations applied between calls through the handle of "app", the
\* "api" transport added through the registry at some point
NextCommonUpdate ==
  \/ \E c \in CommonConfigs : updateConfiguration(c)
  \/ \E level \in {"info", "error"} :
       Awaited /\ proxyMethod(createProxy("app"), level, <<"msg">>)
  \/ LogSteps
  \/ CommonAddTransport(3)

SpecCommonUpdate == InitCommon /\ [][NextCommonUpdate]_vars

\* the module "app" switched off and on between calls through its handle, a
\* transport named "console" added through the registry at some point
NextCommonSwitch ==
  \/ disableModule("app")
  \/ enableModule("app")
  \/ updateConfiguration(2)
  \/ \E level \in {"info", "error"} :
       Awaited /\ proxyMethod(createProxy("app"), level, <<"msg">>)
  \/ LogSteps
  \/ CommonAddTransport(4)

SpecCommonSwitch == InitCommon /\ [][NextCommonSwitch]_vars

\* every operation of the registry on its transports and its logger; no
\* call throws
NamesLists == {Omitted, <<2>>}
NextCommonNames ==
  \/ \E i \in CommonInstances : CommonAddTransport(i)
  \/ \E ts \in CommonLists : CommonSetTransports(ts)
  \/ \E name \in {"console", "file"} : CommonRemoveTransport(name)
  \/ \E c \in {2, 5} : updateConfiguration(c)
  \/ \E c \in {0, 2}, ts \in NamesLists : initializeCall(c, ts)
  \/ getInstanceCall
  \/ reset

SpecCommonNames == InitCommon /\ [][NextCommonNames]_vars

\* initialize() and getInstance() called with and without arguments, one of
\* the lists holding a value that is not a transport; a call in the wait loop
\* keeps the thread, so nothing else runs then
InitLists == {Omitted, <<3>>, <<NotATransport>>}
Running == ~common.waiting
NextCommonInit ==
  \/ \E c \in {0, 2}, ts \in InitLists : Running /\ initializeCall(c, ts)
  \/ Running /\ getInstanceCall
  \/ Running /\ reset
  \/ \E i \in CommonInstances : Running /\ CommonAddTransport(i)
  \/ \E c \in {2, 5} : Running /\ updateConfiguration(c)

SpecCommonInit == InitCommon /\ [][NextCommonInit]_vars

\* log() calls on a database transport, its timers, its flushes succeeding
\* or failing, and cleanup() called on it
NextDb ==
  \/ transportLog("db")
  \/ \E ok \in BOOLEAN : initSettle("db", ok)
  \/ \E i \in 1..MaxCalls : logResume("db", i)
  \/ flushTimer("db")
  \/ \E ok \in BOOLEAN : flushSettle("db", ok)
  \/ cleanupCall("db")

SpecDb == Init /\ [][NextDb]_vars

\* an ApiTransport constructed with one of the configurations, entries logged
\* to it, its timer, its POSTs succeeding or failing, flush() called on the
\* logger it is registered with
NextApi ==
  \/ \E b \in ApiBatchSizes, m \in ApiMaxRetries : newApiTransport(b, m)
  \/ \E ok \in BOOLEAN : initAxios(ok)
  \/ apiLog
  \/ apiTimer
  \/ loggerFlush
  \/ \E k \in 1..MaxCalls, ok \in BOOLEAN : apiPostSettle(k, ok)
  \/ \E k \in 1..MaxCalls : apiRetry(k)

SpecApi == Init /\ [][NextApi]_vars

\* the same without flush() calls from outside; every POST ends and every
\* wait between attempts ends
NextApiRetry ==
  \/ \E b \in ApiBatchSizes, m \in ApiMaxRetries : newApiTransport(b, m)
  \/ \E ok \in BOOLEAN : initAxios(ok)
  \/ apiLog
  \/ apiTimer
  \/ \E k \in 1..MaxCalls, ok \in BOOLEAN : apiPostSettle(k, ok)
  \/ \E k \in 1..MaxCalls : apiRetry(k)

SpecApiRetry ==
  /\ Init /\ [][NextApiRetry]_vars
  /\ \A k \in 1..MaxCalls :
       /\ WF_vars(\E ok \in BOOLEAN : apiPostSettle(k, ok))
       /\ WF_vars(apiRetry(k))

\* log() calls on a file transport and a database transport whose
\* initialization succeeds or fails each time it is tried
NextLazy ==
  \/ \E t \in LazyTransports : transportLog(t)
  \/ \E t \in LazyTransports, ok \in BOOLEAN : initSettle(t, ok)
  \/ \E t \in LazyTransports, i \in 1..MaxCalls : logResume(t, i)
  \/ \E t \in LazyTransports : flushTimer(t)
  \/ \E t \in LazyTransports : flushSettle(t, TRUE)

SpecLazy == Init /\ [][NextLazy]_vars

----------------------------------------------------------------------------
(* Properties *)

CallIds == 1..Len(calls)

\* how many times transport instance i was given the entry of call c
entriesOf(c, i) == Len(SelectSeq(delivered[i], LAMBDA e : e.call = c))

\* how many times instance i occurs in the transport list ts
occurrences(ts, i) == Len(SelectSeq(ts, LAMBDA x : x = i))

\* call c gave no entry to any transport
NothingDelivered(c) == \A i \in Instances : entriesOf(c, i) = 0

Failing == {i \in Instances : instBehaviour[i] \in {"throws", "rejects"}}
Succeeding == Instances \ Failing

Range(seq) == {seq[k] : k \in 1..Len(seq)}

\* the position of a level in the order trace < debug < info < warn < error
severity(level) ==
  CASE level = "trace" -> 0
    [] level = "debug" -> 1
    [] level = "info"  -> 2
    [] level = "warn"  -> 3
    [] level = "error" -> 4

\* the ModuleConfig the logger's modules map holds for the module, Undef if none
ownEntry(module) == mapObj[cfgObj[config].modules][module]

\* C1: a log() call whose resolved transport list holds a transport that throws
\* or rejects and one that succeeds gives its entry to every succeeding
\* transport of the list, and its promise does not reject.
C1_FanOutIsolation ==
  \A c \in CallIds :
    (/\ calls[c].pc \in {"awaiting", "done"}
     /\ Range(calls[c].route0) \cap Failing # {}
     /\ Range(calls[c].route0) \cap Succeeding # {})
    => /\ \A i \in Range(calls[c].route0) \cap Succeeding : entriesOf(c, i) >= 1
       /\ calls[c].outcome # "rejected"

\* a call routed to the throwing transport first and the console after it has
\* returned, the console holding its entry
C1_Witness ==
  \E c \in CallIds :
    /\ calls[c].pc = "done"
    /\ calls[c].route0 = <<2, 1>>
    /\ entriesOf(c, 1) = 1
    /\ entriesOf(c, 2) = 1

\* C2: a log() or wrapper call made while the global enabled flag is false
\* returns at once and gives no entry to any transport, whatever the module
\* configuration is.
C2_GlobalKillSwitch ==
  \A c \in CallIds :
    ~calls[c].enabled0 =>
      /\ ~calls[c].passed
      /\ calls[c].pc = "done"
      /\ NothingDelivered(c)

\* a warn call made while the flag was false, the module being configured as
\* enabled with all five levels and its transports registered
C2_Witness ==
  \E c \in CallIds :
    /\ ~calls[c].enabled0
    /\ calls[c].level = "warn"
    /\ ~cfgObj[config].enabled
    /\ ownEntry(calls[c].module) = literal(1)
    /\ Len(transports) = 3

\* C3: for a module with no entry in the modules map and level, defaultLevel
\* among the five levels, the call passes the filter iff the level is at or
\* above defaultLevel (global enabled being true).
C3_DefaultLevelGate ==
  \A c \in CallIds :
    (/\ cfgObj[config].enabled
     /\ ownEntry(calls[c].module) = Undef
     /\ calls[c].level \in LogLevel
     /\ cfgObj[config].defaultLevel \in LogLevel)
    => (calls[c].passed <=> severity(calls[c].level) >= severity(cfgObj[config].defaultLevel))

\* C4: for a module that has an entry in the modules map, the call passes the
\* filter iff the module is enabled and the level is a member of its levels
\* list (global enabled being true); a call that does not pass delivers nothing.
C4_ModuleSetMembership ==
  \A c \in CallIds :
    (cfgObj[config].enabled /\ ownEntry(calls[c].module) # Undef)
    => /\ calls[c].passed <=>
            (/\ mcObj[ownEntry(calls[c].module)].enabled
             /\ calls[c].level \in Range(mcObj[ownEntry(calls[c].module)].levels))
       /\ ~calls[c].passed => NothingDelivered(c)

\* a warn call to a module configured with levels = ["error"], defaultLevel
\* being "info": it has returned and nothing was delivered
C4_Witness ==
  \E c \in CallIds :
    /\ cfgObj[config].enabled
    /\ cfgObj[config].defaultLevel = "info"
    /\ ownEntry(calls[c].module) = literal(6)
    /\ calls[c].level = "warn"
    /\ calls[c].pc = "done"
    /\ NothingDelivered(c)

\* C5: the promise returned by log() and by each level wrapper never rejects,
\* whatever the module, the level, the configuration and the registry are.
C5_NeverRejects ==
  \A c \in CallIds :
    /\ calls[c].outcome \in {"pending", "fulfilled"}
    /\ calls[c].pc = "done" => calls[c].outcome = "fulfilled"

\* a call has returned after the promise of a transport's log() rejected
C5_Witness ==
  \E c \in CallIds :
    /\ calls[c].pc = "done"
    /\ \E k \in 1..Len(calls[c].targets) :
         instBehaviour[calls[c].targets[k]] = "rejects" /\ calls[c].status[k] = "caught"

C7_NoInPlaceMutation ==
  [][ConfigMutation => \A h \in held : stringify(h.ref)' = stringify(h.ref)]_vars

\* C8: a log() call delivers to exactly the transports that the configuration
\* and registry of the moment it started resolve to, whatever configuration
\* and registry changes happen while it awaits delivery.
C8_SingleSnapshot ==
  \A c \in CallIds :
    (calls[c].passed /\ calls[c].pc \in {"awaiting", "done"})
    => \A i \in Instances : entriesOf(c, i) = occurrences(calls[c].route0, i)

\* a call is awaiting delivery and the configuration no longer lets it pass, or
\* now resolves to other transports
C8_Witness ==
  \E c \in CallIds :
    /\ calls[c].pc = "awaiting"
    /\ calls[c].route0 # <<>>
    /\ \/ ~shouldLog(config, calls[c].module, calls[c].level)
       \/ getTransportsForModule(config, transports, calls[c].module) # calls[c].route0

\* what the logger decides and where it routes, for every module and level
FilterView ==
  [module \in ModuleNames, level \in LevelInputs |-> shouldLog(config, module, level)]
RouteView ==
  [module \in ModuleNames |-> getTransportsForModule(config, transports, module)]

\* C9: a write to any part of an object returned by getConfig() changes neither
\* the filter decisions nor the routing of the logger.
C9_GetConfigIsolation ==
  [][MutateCopy => (FilterView' = FilterView /\ RouteView' = RouteView)]_vars

\* the levels of a module were overwritten in a copy returned by getConfig()
\* and the logger still holds the levels it had
C9_Witness ==
  \E h \in held :
    /\ h.via = "getConfig"
    /\ ownEntry("app") = literal(1)
    /\ mcObj[literal(1)].levels = LogLevels
    /\ stringify(h.ref).modules["app"] # <<>>
    /\ stringify(h.ref).modules["app"][1].levels = <<"trace">>

\* C10: build() returns a copy equal to the builder's configuration; builder
\* methods called afterwards leave every snapshot returned earlier as it was,
\* and a write to a snapshot leaves the builder's configuration as it was.
C10_BuildIsolation ==
  [][/\ build => \A h \in held' \ held : stringify(h.ref)' = stringify(builder)
     /\ BuilderMethod =>
          \A h \in held : h.via = "build" => stringify(h.ref)' = stringify(h.ref)
     /\ MutateCopy => stringify(builder)' = stringify(builder)]_vars

\* a snapshot was built with a module in it, the snapshot was written to and
\* the builder was changed afterwards
C10_Witness ==
  \E h \in held :
    /\ h.via = "build"
    /\ writes > 0
    /\ stringify(h.ref).modules["app"] # <<>>
    /\ stringify(builder).modules["app"] # <<>>
    /\ stringify(h.ref).modules["app"] # stringify(builder).modules["app"]
    /\ stringify(h.ref).enabled # stringify(builder).enabled

\* C11: the registry lists each name once and holds under it the instance last
\* passed to addTransport, whatever instance had the name before; a call to an
\* unconfigured module gives its entry to that instance of "console", and an
\* instance that is not the last one added under its name is given no entry.
C11_IdempotentRegistration ==
  [][/\ \A name \in TransportNames :
          IF registered'[name] = 0
          THEN occurrences(listTransports(transports'), name) = 0
          ELSE /\ occurrences(listTransports(transports'), name) = 1
               /\ registered'[name] \in Range(transports')
     /\ \A j \in Instances :
          registered[instName[j]] # j => delivered'[j] = delivered[j]
     /\ \A c \in CallIds : LogSend(c) =>
          (registered["console"] # 0 =>
             Len(delivered'[registered["console"]]) = Len(delivered[registered["console"]]) + 1)
    ]_vars

\* the first console instance got the entry of the first call, the second
\* console instance was added under the same name and got the entry of the
\* second call
C11_Witness ==
  /\ listTransports(transports) = <<"console">>
  /\ registered["console"] = 4
  /\ Len(delivered[1]) = 1 /\ delivered[1][1].call = 1
  /\ Len(delivered[4]) = 1 /\ delivered[4][1].call = 2

SweepIds == 1..Len(sweeps)

\* C12: flush() and cleanup() call the operation on every registered transport
\* that has it, whatever the other transports do, and the promise they return
\* is never rejected.
C12_SweepReachesAll ==
  [][/\ \A op \in {"flush", "cleanup"} : sweep(op) =>
          \A i \in Range(transports) :
            sweepBehaviour(op, i) # "absent" => i \in Range(sweeps'[Len(sweeps')].invoked)
     /\ \A s \in 1..Len(sweeps') : sweeps'[s].outcome # "rejected"]_vars

\* what console.error was called with about transport instance i
reportsAbout(i) == SelectSeq(diag, LAMBDA d : d.transport = i)

\* C13: every log(), flush() or cleanup() of a transport that threw or whose
\* promise was rejected was caught by the logger (the promise of the logger's
\* own call is not rejected) and reported to console.error.
C13_FailuresReported ==
  /\ \A c \in CallIds : \A k \in 1..Len(calls[c].status) :
       calls[c].status[k] = "caught" =>
         /\ \E n \in 1..Len(diag) :
              diag[n] = [call |-> c, transport |-> calls[c].targets[k]]
         /\ calls[c].outcome # "rejected"
  /\ \A s \in SweepIds : \A k \in 1..Len(sweeps[s].status) :
       sweeps[s].status[k] \in {"threw", "failed"} =>
         /\ reportsAbout(sweeps[s].invoked[k]) # <<>>
         /\ sweeps[s].outcome # "rejected"

\* C14: the promise returned by log() has settled only if the log() of every
\* transport the call was routed to has settled.
C14_SettlesAfterAll ==
  \A c \in CallIds :
    (calls[c].pc = "done" \/ calls[c].outcome # "pending")
    => /\ \A i \in Range(calls[c].route0) : entriesOf(c, i) >= 1
       /\ Len(calls[c].status) = Len(calls[c].route0)
       /\ \A k \in 1..Len(calls[c].status) : calls[c].status[k] \in {"ok", "caught"}

\* a call routed to the rejecting transport and to the console has returned
C14_Witness ==
  \E c \in CallIds :
    /\ calls[c].pc = "done"
    /\ calls[c].route0 = <<3, 1>>
    /\ calls[c].status = <<"caught", "ok">>

\* call c is waiting for a transport whose promise has not settled
waiting(c) ==
  /\ calls[c].pc = "awaiting"
  /\ \E k \in 1..Len(calls[c].status) : calls[c].status[k] = "pending"

\* no log() call is in the middle of its synchronous part
Idle == \A c \in CallIds : calls[c].pc \in {"awaiting", "done"}

\* C15: while a call waits for a transport that has not settled, every
\* transport the call was routed to has its entry, a call that waits for no
\* transport can return, and a new call can be started.
C15_SlowTransportIsolated ==
  /\ \A c \in CallIds : calls[c].pc = "awaiting" =>
       \A i \in Range(calls[c].route0) : entriesOf(c, i) = occurrences(calls[c].route0, i)
  /\ \A c \in CallIds :
       (Idle /\ calls[c].pc = "awaiting" /\ ~waiting(c)) => ENABLED LogReturn(c)
  /\ (Idle /\ (\E c \in CallIds : waiting(c)) /\ Len(calls) < MaxCalls)
       => ENABLED LogStart("app", "warn")

\* the first call still waits for the slow console instance although the api
\* transport has settled; both got its entry.  The second call, issued later
\* and routed to the console instance that replaced the slow one, has returned
C15_Witness ==
  /\ Len(calls) >= 2
  /\ calls[1].pc = "awaiting"
  /\ calls[1].route0 = <<3, 4>>
  /\ calls[1].status = <<"caught", "pending">>
  /\ entriesOf(1, 3) = 1 /\ entriesOf(1, 4) = 1
  /\ calls[2].pc = "done"
  /\ calls[2].route0 = <<3, 1>>
  /\ entriesOf(2, 1) = 1

\* C16: when every log() call is awaited before the next one is issued, the
\* entries each transport was given are in the order of the calls.
C16_OrderWhenAwaited ==
  \A i \in Instances : \A a, b \in 1..Len(delivered[i]) :
    a < b => delivered[i][a].call < delivered[i][b].call

\* the console was given the entry of the first call, an info call, and then
\* the entry of the second, an error call
C16_Witness ==
  /\ Len(delivered[1]) = 2
  /\ delivered[1][1].call = 1 /\ delivered[1][1].level = "info"
  /\ delivered[1][2].call = 2 /\ delivered[1][2].level = "error"
  /\ Awaited

\* how many of the wrappers of call c for instance i caught a failure
caughtBy(c, i) ==
  Cardinality({k \in 1..Len(calls[c].status) :
                 calls[c].targets[k] = i /\ calls[c].status[k] = "caught"})

\* C17: a call gives its entry to a transport once per occurrence of the
\* transport in the list the call resolved, and never again after a failure: a
\* failure is reported once and the call is not rejected.
C17_NoRetry ==
  \A c \in CallIds : \A i \in Instances :
    /\ entriesOf(c, i) <= occurrences(calls[c].route0, i)
    /\ Len(SelectSeq(diag, LAMBDA d : d.call = c /\ d.transport = i)) = caughtBy(c, i)
    /\ caughtBy(c, i) > 0 => (entriesOf(c, i) = 1 /\ calls[c].outcome # "rejected")

\* a call has returned after the transport that throws failed and was
\* reported; it was called once
C17_Witness ==
  \E c \in CallIds :
    /\ calls[c].pc = "done"
    /\ \E i \in Range(calls[c].route0) : instBehaviour[i] = "throws" /\ entriesOf(c, i) = 1
    /\ Len(diag) >= 1

\* the entry log() builds for call c
entryOf(c) ==
  [call |-> c, module |-> calls[c].module, level |-> calls[c].level,
   message |-> calls[c].message, metadata |-> cfgObj[config].metadata,
   sessionId |-> sessionId]

\* C18: a call to a module with no entry in the modules map, at a level at or
\* above defaultLevel, on an enabled logger with a transport registered as
\* "console", gives that transport exactly one entry, carrying the level, the
\* module and the message of the call, and gives no other transport anything.
C18_FallbackToConsole ==
  \A c \in CallIds :
    (/\ calls[c].pc \in {"awaiting", "done"}
     /\ cfgObj[config].enabled
     /\ ownEntry(calls[c].module) = Undef
     /\ registered["console"] # 0
     /\ calls[c].level \in LogLevel
     /\ severity(calls[c].level) >= severity(cfgObj[config].defaultLevel))
    => /\ delivered[registered["console"]] = <<entryOf(c)>>
       /\ calls[c].message \in {"hello", "boom at x"}
       /\ \A i \in Instances \ {registered["console"]} : delivered[i] = <<>>

\* the transport names a call to the module is to be routed to
namesFor(module) ==
  IF ownEntry(module) = Undef THEN <<"console">> ELSE mcObj[ownEntry(module)].transports

\* C19: a call that passes the filter gives its entry to each registered
\* transport once per occurrence of its name in the module's transports list,
\* names that are not registered count for nothing and raise nothing, and when
\* no name is registered the call delivers nothing and returns normally.
C19_UnregisteredNamesDropped ==
  \A c \in CallIds :
    (calls[c].passed /\ calls[c].pc \in {"awaiting", "done"})
    => /\ \A i \in Instances :
            entriesOf(c, i) =
              IF registered[instName[i]] = i
              THEN occurrences(namesFor(calls[c].module), instName[i])
              ELSE 0
       /\ \A n \in 1..Len(diag) : registered[instName[diag[n].transport]] = diag[n].transport
       /\ calls[c].outcome # "rejected"
       /\ (\A k \in 1..Len(namesFor(calls[c].module)) :
              registered[namesFor(calls[c].module)[k]] = 0)
          => /\ NothingDelivered(c)
             /\ diag = <<>>
             /\ calls[c].pc = "awaiting" => ENABLED LogReturn(c)
             /\ calls[c].pc = "done" => calls[c].outcome = "fulfilled"

\* a call to a module routed to ["file", "console"] has returned; only the
\* console is registered and it got the entry
C19_Witness ==
  \E c \in CallIds :
    /\ calls[c].pc = "done"
    /\ namesFor(calls[c].module) = <<"file", "console">>
    /\ registered["file"] = 0
    /\ registered["console"] = 1
    /\ delivered[1] = <<entryOf(c)>>

\* C20: a call to a module whose entry has enabled = false does not pass the
\* filter and delivers nothing, at every level, whatever defaultLevel, the
\* module's levels and the registry are.
C20_DisabledModule ==
  \A c \in CallIds :
    (ownEntry(calls[c].module) # Undef /\ ~mcObj[ownEntry(calls[c].module)].enabled)
    => /\ ~calls[c].passed
       /\ calls[c].pc = "done"
       /\ calls[c].outcome = "fulfilled"
       /\ NothingDelivered(c)

\* an error call to a disabled module that lists all five levels and the
\* console, on an enabled logger with defaultLevel "trace" and the console
\* registered
C20_Witness ==
  \E c \in CallIds :
    /\ ownEntry(calls[c].module) = literal(4)
    /\ calls[c].level = "error"
    /\ cfgObj[config].enabled
    /\ cfgObj[config].defaultLevel = "trace"
    /\ registered["console"] = 1

----------------------------------------------------------------------------
(* Runtime reconfiguration, sessions and delivered entries *)

\* the instances registered under the names of a transports list, in its order
registeredFor(reg, names) ==
  LET present == SelectSeq(names, LAMBDA n : reg[n] # 0)
  IN [k \in 1..Len(present) |-> reg[present[k]]]

\* C21: the filter decision and the routing of a module are those of the
\* ModuleConfig passed to the most recent setModuleConfig for it: the entry of
\* the module is the object passed, only setModuleConfig changes it, a call is
\* dropped or passed as that object says (enabled and level in levels, the
\* logger being enabled), and a passed call gives its entry to the registered
\* transports the object names and to no other.
C21_LatestModuleConfig ==
  [][\A m \in ModuleNames :
       /\ \A k \in 1..Len(ModuleConfigLiterals) :
            setModuleConfig(m, literal(k)) => ownEntry(m)' = literal(k)
       /\ (~ \E k \in 1..Len(ModuleConfigLiterals) : setModuleConfig(m, literal(k)))
            => ownEntry(m)' = ownEntry(m)
       /\ mcObj' = mcObj
       /\ ownEntry(m)' # Undef =>
            LET mc == ModuleConfigLiterals[0 - ownEntry(m)'[1]]
            IN /\ \A level \in LogLevel :
                    shouldLog(config, m, level)' =
                      (cfgObj'[config'].enabled /\ mc.enabled /\ level \in Range(mc.levels))
               /\ getTransportsForModule(config, transports, m)'
                    = registeredFor(registered', mc.transports)
       /\ ownEntry(m) # Undef =>
            LET mc == ModuleConfigLiterals[0 - ownEntry(m)[1]]
            IN /\ (Len(calls') > Len(calls) /\ calls'[Len(calls')].module = m) =>
                    calls'[Len(calls')].passed =
                      (cfgObj[config].enabled /\ mc.enabled
                       /\ calls'[Len(calls')].level \in Range(mc.levels))
               /\ \A c \in CallIds : (LogSend(c) /\ calls[c].module = m) =>
                    \A i \in Instances :
                      Len(delivered'[i]) - Len(delivered[i])
                        = occurrences(registeredFor(registered, mc.transports), i)
               /\ \A c \in CallIds : (calls[c].module = m /\ ~ calls[c].passed) =>
                    NothingDelivered(c)'
    ]_vars

\* an error call was dropped while the module was disabled, the module was
\* enabled again with transports ["api", "console"], and a second error call
\* gave its entry to both
C21_Witness ==
  /\ Len(calls) = 2
  /\ calls[1].level = "error" /\ ~ calls[1].passed /\ NothingDelivered(1)
  /\ calls[2].level = "error" /\ calls[2].passed /\ calls[2].pc = "done"
  /\ ownEntry("app") = literal(2)
  /\ entriesOf(2, 1) = 1 /\ entriesOf(2, 3) = 1

\* the entries given to instance i by the step
newEntries(i) == {delivered'[i][n] : n \in (Len(delivered[i]) + 1)..Len(delivered'[i])}

\* the session ids carried by the entries delivered so far
sessionsSeen == UNION {{delivered[i][n].sessionId : n \in 1..Len(delivered[i])} : i \in Instances}

\* C22: every entry carries the session id the logger has when the call is
\* issued, which is what getSessionId() returns; renewSession() sets an id that
\* differs from the one before and from the id of every entry delivered
\* earlier, and nothing else changes the id.
C22_SessionCorrelation ==
  [][/\ \A i \in Instances : \A e \in newEntries(i) :
          e.sessionId = getSessionId /\ e.sessionId = getSessionId'
     /\ renewSession => (getSessionId' # getSessionId /\ getSessionId' \notin sessionsSeen)
     /\ (~ renewSession) => getSessionId' = getSessionId
    ]_vars

\* the console transport got an entry before a renewal and one after it: the
\* second carries the current id, the first another one
C22_Witness ==
  /\ Len(delivered[1]) = 2
  /\ delivered[1][2].sessionId = getSessionId
  /\ delivered[1][1].sessionId # getSessionId
  /\ drawn(getSessionId) > 0

\* C23: a step of the logger leaves every entry already given to a transport
\* as it was, the metadata object it refers to included.
C23_DeliveredEntriesFrozen ==
  [][\A i \in Instances : \A n \in 1..Len(delivered[i]) :
       /\ Len(delivered'[i]) >= n
       /\ delivered'[i][n] = delivered[i][n]
       /\ delivered[i][n].metadata # 0 =>
            metaObj'[delivered[i][n].metadata] = metaObj[delivered[i][n].metadata]
    ]_vars

\* an entry was delivered with the metadata { app: "1" }; since then
\* setMetadata gave the logger another metadata object, the session was renewed
\* and the module was disabled, and the entry is as it was
C23_Witness ==
  /\ Len(delivered[1]) = 1
  /\ delivered[1][1].metadata = metaLiteral
  /\ metaObj[metaLiteral] = MetaLiteralHeap[metaLiteral]
  /\ cfgObj[config].metadata # metaLiteral
  /\ metaObj[cfgObj[config].metadata]["env"] = "2"
  /\ delivered[1][1].sessionId # getSessionId
  /\ ownEntry("app") = literal(3)

\* C24: removeTransport(name) returns true exactly when a transport is
\* registered under name; after it name is not in listTransports(), and an
\* instance that is not registered gets no entry.
C24_RemoveTransport ==
  [][/\ \A name \in TransportNames :
          /\ removeTransportResult(name) = (registered[name] # 0)
          /\ removeTransportResult(name)' = (registered'[name] # 0)
          /\ removeTransport(name) =>
               /\ name \notin Range(listTransports(transports'))
               /\ ~ removeTransportResult(name)'
     /\ \A j \in Instances :
          registered[instName[j]] # j => delivered'[j] = delivered[j]
    ]_vars

\* the first console instance got the entry of the first call and was removed;
\* the second call passed the filter and gave it nothing; removing "console"
\* now returns false and removing "file" returns true
C24_Witness ==
  /\ Len(calls) = 2
  /\ entriesOf(1, 1) = 1
  /\ calls[2].passed /\ calls[2].pc = "done" /\ NothingDelivered(2)
  /\ "console" \notin Range(listTransports(transports))
  /\ ~ removeTransportResult("console")
  /\ removeTransportResult("file")

----------------------------------------------------------------------------
(* The registry *)

\* C26: after an updateConfiguration() that replaces the logger, every transport
\* added through CommonLoggerConfig.addTransport or setTransports and not
\* removed since is registered on the new logger under its name, and a call
\* whose module names it gives it the entry.
C26_TransportsSurviveUpdate ==
  [][/\ \A c \in CommonConfigs :
          (updateConfiguration(c) /\ common'.instance # common.instance) =>
            \A name \in TransportNames : asked.added[name] # 0 =>
              /\ occurrences(listTransports(transports'), name) = 1
              /\ registryGet(transports', name) = asked.added[name]
     /\ \A c \in CallIds : LogSend(c) =>
          \A k \in 1..Len(namesFor(calls[c].module)) :
            LET name == namesFor(calls[c].module)[k]
            IN asked.added[name] # 0 =>
                 Len(delivered'[asked.added[name]]) > Len(delivered[asked.added[name]])
    ]_vars

\* C27: updateConfiguration(newConfig) keeps the logger in place when newConfig
\* equals the configuration applied before by value, and puts another logger in
\* its place when the two differ by value.
C27_UpdateByValue ==
  asked.update # <<>> =>
    /\ asked.update[1].equal => common.instance = asked.update[1].before
    /\ (~ asked.update[1].equal) => common.instance # asked.update[1].before

\* the configuration last applied: the argument of the last updateConfiguration
\* call, the default configuration when there was none
applied == IF asked.update = <<>> THEN createDefaultConfig ELSE asked.update[1].arg

\* C28: a call through the handle of a module goes to the live logger, made
\* from the default configuration when there is none yet, and is filtered and
\* routed as the configuration last applied says: dropped or passed by its
\* flags and its entry for the module, and given to the registered transports
\* that entry names.
C28_HandleFollowsConfiguration ==
  [][/\ \A module \in ModuleNames, level \in LogLevel :
          proxyMethod(createProxy(module), level, <<"msg">>) =>
            LET new == calls'[Len(calls')]
            IN /\ common'.instance # 0
               /\ new.module = module /\ new.level = level
               /\ new.passed = shouldLog(applied, module, level)
               /\ new.route0 = IF new.passed
                                THEN getTransportsForModule(applied, transports', module)
                                ELSE <<>>
     /\ \A c \in CallIds : LogSend(c) =>
          \A i \in Instances :
            Len(delivered'[i]) - Len(delivered[i]) = occurrences(calls[c].route0, i)
     /\ \A c \in CallIds : ~ calls[c].passed => NothingDelivered(c)'
    ]_vars

\* an info call through the handle passed under the "trace" configuration, the
\* configuration with the entry for "app" was applied and "api" is registered,
\* and an error call through the handle went to "api" and "console"
C28_Witness ==
  /\ Len(calls) = 2
  /\ calls[1].level = "info" /\ calls[1].passed /\ entriesOf(1, 1) = 1
  /\ applied = 5 /\ config = 5
  /\ calls[2].level = "error" /\ calls[2].pc = "done"
  /\ entriesOf(2, 3) = 1 /\ entriesOf(2, 1) = 1

\* C29: after disableModule(M) a call through the handle of M, at error level
\* too, gives its entry to no transport, and after a following enableModule(M)
\* an error call through the handle gives its entry to the console transport.
C29_ModuleSwitch ==
  [][/\ \A module \in ModuleNames, level \in LogLevel :
          proxyMethod(createProxy(module), level, <<"msg">>) =>
            LET new == calls'[Len(calls')]
            IN /\ asked.switched[module] = "disabled" => ~ new.passed
               /\ (asked.switched[module] = "enabled" /\ level = "error") =>
                    (new.passed /\ new.route0 = <<registered'["console"]>>)
     /\ \A c \in CallIds : LogSend(c) =>
          \A i \in Instances :
            Len(delivered'[i]) - Len(delivered[i]) = occurrences(calls[c].route0, i)
     /\ \A c \in CallIds : ~ calls[c].passed => NothingDelivered(c)'
    ]_vars

----------------------------------------------------------------------------
(* Lazy initialization *)

\* C30: after a failed lazy initialization the transport stays un-initialized,
\* and a log() call made after the failure returns a promise that is never
\* rejected; when the initialization it retries fails too, the call is a no-op
C30_FailedInitSilences ==
  \A t \in LazyTransports :
    LET tr == lazy[t] IN
    /\ (initFailed(tr) /\ promiseState(tr, initPromise(tr)) = "rejected") => ~tr.initialized
    /\ \A i \in 1..Len(tr.logs) :
         LET l == tr.logs[i] IN
         (l.afterFailure /\ l.state \notin {"awaiting", "flushing"}) =>
             /\ l.state = "fulfilled"
             /\ (promiseState(tr, l.promise) = "rejected" => ~l.body)

----------------------------------------------------------------------------
(* The registry's logger *)

\* the names registered on the live logger
liveNames == {instName[transports[k]] : k \in 1..Len(transports)}

\* C33: whenever the registry has a logger, the names registered on it are
\* "console" and the names of the registry's customTransports
C33_NamesFollowCustomTransports ==
  common.instance # 0 =>
    liveNames = {"console"} \cup
                {instName[common.customTransports[k]] : k \in 1..Len(common.customTransports)}

\* C34: no call of initialize() or getInstance() enters the wait loop with
\* isInitializing left set by an earlier call, where it would never return
C34_InitializeTerminates == ~common.waiting

\* C35: when reset() returns, the live logger has only the console transport
\* and its configuration equals the default configuration
C35_ResetRestoresDefaults ==
  [][(reset /\ ~common'.waiting) =>
       /\ common'.instance # 0
       /\ liveNames' = {"console"}
       /\ equalByValue(config', createDefaultConfig)]_vars

----------------------------------------------------------------------------
(* ApiTransport *)

SendIds == 1..Len(api.sends)

\* C36: a sendWithRetry call makes at most maxRetries attempts, makes none
\* after a successful one, ends without success only after the
\* maxRetries-th attempt, and every call ends
C36_RetryBounded ==
  /\ [](\A k \in SendIds :
          LET send == api.sends[k] IN
          /\ send.attempt <= api.maxRetries
          /\ send.ok => send.state = "done"
          /\ (send.state = "done" /\ ~send.ok) => send.attempt = api.maxRetries)
  /\ \A k \in 1..MaxCalls :
       (k \in SendIds) ~> (k \in SendIds /\ api.sends[k].state = "done")

\* a call gave up after the second of two failed attempts
C36_Witness ==
  \E k \in SendIds :
    /\ api.maxRetries = 2
    /\ api.sends[k].state = "done"
    /\ ~api.sends[k].ok
    /\ api.sends[k].attempt = 2

\* the entries handed to a POST attempt so far
handedOver == UNION {Range(api.sends[k].batch) : k \in SendIds}

\* C32: once flush() on the logger has settled, every entry log() had taken
\* before the call has been handed to a POST attempt, none is still in the buffer
C32_FlushDrains ==
  \A f \in 1..Len(api.flushes) :
    api.flushes[f].settled => \A e \in 1..api.flushes[f].accepted : e \in handedOver

\* C37: with axios loaded, no entry sits in the buffer without a flush timer
C37_BufferedEntriesHaveTimer ==
  (api.axios = "loaded" /\ api.buffer # <<>>) => api.timer

----------------------------------------------------------------------------
(* The file and database transports *)

\* C31: no promise of a built-in transport is rejected without a handler
C31_NoUnhandledRejection == \A t \in LazyTransports : lazy[t].unhandled = 0

\* the entries in the batches of the flush() calls under way
inFlight(tr) == UNION {Range(flight.batch) : flight \in tr.flights}

\* where entry e stands in a sequence that holds it
position(seq, e) == CHOOSE n \in 1..Len(seq) : seq[n] = e

\* the places entry i of the transport is in
placesOf(tr, i) ==
  Len(SelectSeq(tr.stored, LAMBDA e : e = i)) + Len(SelectSeq(tr.buffer, LAMBDA e : e = i))
  + Cardinality({flight \in tr.flights : i \in Range(flight.batch)})

\* C38: every entry the database transport took is stored, in the buffer or in
\* one batch under way, never in two places; the buffer holds its entries in
\* the order it took them, and is never left without a timer
C38_FailedFlushKeepsEntries ==
  LET tr == lazy["db"] IN
  /\ \A i \in Range(tr.taken) : placesOf(tr, i) = 1
  /\ \A j, k \in 1..Len(tr.buffer) :
       j < k => position(tr.taken, tr.buffer[j]) < position(tr.taken, tr.buffer[k])
  /\ tr.buffer # <<>> => tr.timer

\* C39: when cleanup() settles, the buffer is empty, no timeout is left to
\* fire and no flush is under way
C39_CleanupLeavesNothing ==
  [][(lazy["db"].cleanup # "settled" /\ lazy'["db"].cleanup = "settled") =>
       /\ lazy'["db"].buffer = <<>>
       /\ ~lazy'["db"].timer
       /\ lazy'["db"].leaked = 0
       /\ lazy'["db"].flights = {}]_vars

pendingInits(tr) == {p \in 1..Len(tr.initPromises) : tr.initPromises[p] = "pending"}

====
